---------------------------- MODULE Spec2Model ----------------------------
(***************************************************************************)
(* Model of the observability core of orca-pip (package lexia):           *)
(*   - EventBus        src/lexia/observability/events.py                   *)
(*   - metric types and MetricsCollector                                   *)
(*                     src/lexia/observability/metrics.py                  *)
(*   - SystemMonitor   src/lexia/observability/monitor.py                  *)
(*   - Profiler        src/lexia/observability/profiler.py                 *)
(* Callers are threads.  Every "with self._lock:" block is an acquire step *)
(* followed by a body step that ends with the release, so the interleaving *)
(* of callers is that of the code.                                         *)
(***************************************************************************)
EXTENDS Integers, Sequences, FiniteSets, TLC

(* ------------------------------ bounds -------------------------------- *)
\* bus operations started after the initial state
MaxCalls == 3
\* events already published when SpecHistory starts
PreLoaded == 103
\* metrics operations started
MaxMetricCalls == 3
\* the latest time the clock reaches
MaxClock == 1
\* monitor operations started
MaxMonitorCalls == 3
\* calls of start, stop and get_stats made on a Profiler
MaxProfilerCalls == 5
\* profiling scopes entered
MaxScopes == 3

Threads == {"t1", "t2"}
NoThread == "none"
EventNames == {"x", "y"}
Priorities == {1, 5}
\* event_filter of a listener: None, or a predicate
Filters == {"None", "pred"}
\* the functions callers subscribe as callbacks
Callbacks == {"f", "g"}
Limits == {0, 2, 200}

\* EventBus._max_history
max_history == 100

VARIABLES
  \* ---- EventBus ----
  listenerObjs,   \* the EventListener objects constructed so far; id = index
  listeners,      \* EventBus._listeners: event name -> list of listener ids
  event_history,  \* EventBus._event_history: list of events
  busLock,        \* holder of EventBus._lock
  nextEvent,      \* number of Event objects constructed (their timestamps)
  bpc,            \* per thread: position in the bus operation it runs
  bl,             \* per thread: locals of the bus operation it runs
  appended,       \* history of appends since the last clear_history (observer)
  calls           \* number of bus operations started (bounds the model)

VARIABLES
  \* ---- the Event objects ----
  eventData       \* Event id -> the fields of that object, as they are now

VARIABLES
  \* ---- MetricsCollector and its metrics ----
  inst,           \* the metric objects constructed so far; id = index
  metrics,        \* MetricsCollector._metrics: name -> metric, in insertion order
  regLock,        \* holder of MetricsCollector._lock
  now,            \* what time.time() returns
  mpc,            \* per thread: position in the metrics operation it runs
  ml,             \* per thread: locals of the metrics operation it runs
  mcalls,         \* per thread: number of metrics operations started
  firstKind       \* name -> kind asked for by the first accessor call (observer)

VARIABLES
  \* ---- SystemMonitor ----
  health_checks,  \* SystemMonitor._health_checks: list of HealthCheck
  hpc,            \* per thread: position in the monitor operation it runs
  hl,             \* per thread: locals of the monitor operation it runs
  hcalls          \* number of monitor operations started (bounds the model)

VARIABLES
  \* ---- Profiler ----
  profilers,      \* the Profiler objects constructed so far; id = index
  ppc,            \* per thread: position in the profiler operation it runs
  pl,             \* per thread: locals of the profiler operation it runs
  pcalls          \* number of profiler operations started (bounds the model)

busVars == <<listenerObjs, listeners, event_history, busLock, nextEvent,
             bpc, bl, appended, calls>>

monitorVars == <<health_checks, hpc, hl, hcalls>>

profilerVars == <<profilers, ppc, pl, pcalls>>

metricVars == <<inst, metrics, regLock, now, mpc, ml, mcalls, firstKind>>

\* what no operation of the EventBus writes: the fields of the Event objects
\* (the bus stores and hands out references to them) and the other components
outsideBus == <<eventData, metricVars, monitorVars, profilerVars>>

\* what no operation of the registry and its metrics writes
outsideMetrics == <<busVars, eventData, monitorVars, profilerVars>>

\* what no operation of the monitor writes
outsideMonitor == <<busVars, eventData, metricVars, profilerVars>>

\* what no operation of a Profiler writes
outsideProfiler == <<busVars, eventData, metricVars, monitorVars>>

vars == <<busVars, eventData, metricVars, monitorVars, profilerVars>>

(* --------------------------- pure helpers ----------------------------- *)

Range(s) == {s[i] : i \in DOMAIN s}

\* dict.get(event_name, [])
GetListeners(d, e) == IF e \in DOMAIN d THEN d[e] ELSE <<>>

\* "del s[:]" in the place of s.remove(x)
ListClear(s, x) == <<>>

\* a remove that takes out every listener whose callback is that of x, as
\* if listeners with the same callback were equal
ListRemoveSameCallback(s, x) ==
  SelectSeq(s, LAMBDA l : listenerObjs[l].callback # listenerObjs[x].callback)

\* list.remove(x): removes the first occurrence; ValueError (caught by the
\* caller) when absent leaves the list as it is
RECURSIVE ListRemove(_, _)
ListRemove(s, x) ==
  IF s = <<>> THEN <<>>
  ELSE IF Head(s) = x THEN Tail(s)
  ELSE <<Head(s)>> \o ListRemove(Tail(s), x)

\* one insertion step of a descending sort that puts x before its ties
RECURSIVE InsertBeforeTies(_, _, _)
InsertBeforeTies(objs, s, x) ==
  IF s = <<>> THEN <<x>>
  ELSE IF objs[Head(s)].priority > objs[x].priority
       THEN <<Head(s)>> \o InsertBeforeTies(objs, Tail(s), x)
       ELSE <<x>> \o s

\* one insertion step of a stable descending sort: x goes after every
\* element whose key is >= its own
RECURSIVE InsertDesc(_, _, _)
InsertDesc(objs, s, x) ==
  IF s = <<>> THEN <<x>>
  ELSE IF objs[Head(s)].priority >= objs[x].priority
       THEN <<Head(s)>> \o InsertDesc(objs, Tail(s), x)
       ELSE <<x>> \o s

\* list.sort(key=lambda l: l.priority, reverse=True): stable, descending
RECURSIVE SortFrom(_, _, _)
SortFrom(objs, done, rest) ==
  IF rest = <<>> THEN done
  ELSE SortFrom(objs, InsertDesc(objs, done, Head(rest)), Tail(rest))

SortByPriority(objs, s) == SortFrom(objs, <<>>, s)

\* s[-limit:] of Python, for limit >= 0 (s[-0:] is s[0:], the whole list)
LastSlice(s, limit) ==
  IF limit = 0 \/ limit >= Len(s) THEN s
  ELSE SubSeq(s, Len(s) - limit + 1, Len(s))


(* ------------------------------ EventBus ------------------------------ *)

NoEvent == [id |-> 0, name |-> "none"]

\* locals of a caller of the bus.  name .. lateInvoke belong to publish;
\* sname .. has_result to the other operations, which a callback may call
\* while a publish of the same thread is dispatching.  outer is the rest of
\* the call stack: the locals of the publish whose callback called this
\* publish, if any.  history_seen is an observer: the history as it was
\* when get_history took its slice.
BusLocals ==
  [name |-> "none", event |-> NoEvent, snapshot |-> <<>>, i |-> 0,
   invoked |-> <<>>, rejected |-> {}, cbRaised |-> {}, outcome |-> "none",
   regAtAppend |-> <<>>, changed |-> FALSE, lateInvoke |-> FALSE,
   sname |-> "none", slistener |-> 0, limit |-> 0, ret |-> "idle",
   history_result |-> <<>>, history_seen |-> <<>>, has_result |-> FALSE,
   outer |-> <<>>]

\* the Event objects the bus can come to hold
EventIds == 1..(PreLoaded + MaxCalls + 1)

\* the fields of an Event as publish constructed it
AsPublished == "as_published"

\* every Event is constructed with the fields publish gave it
InitEvents == eventData = [k \in EventIds |-> AsPublished]

\* EventBus.__init__
InitBus ==
  /\ listenerObjs = <<>>
  /\ listeners = <<>>
  /\ event_history = <<>>
  /\ busLock = NoThread
  /\ nextEvent = 0
  /\ bpc = [t \in Threads |-> "idle"]
  /\ bl = [t \in Threads |-> BusLocals]
  /\ appended = <<>>
  /\ calls = 0

\* a caller may start an operation when it runs none, or from inside a
\* listener callback that publish is running on its thread
CanCall(t) == bpc[t] \in {"idle", "in_callback"} /\ calls < MaxCalls

\* the position after "with self._lock:" has been entered
BodyOf(pc) == IF pc = "pub_lock1" THEN "pub_append" ELSE "pub_snap"

LockPcs == {"pub_lock1", "pub_lock2"}

\* a lock that never blocks
LockAlwaysFree(t) == TRUE

\* threading.Lock.acquire: blocks until the lock is free
LockFree(t) == busLock = NoThread

\* the two "with self._lock:" that publish enters (its own, and that of
\* _get_listeners)
BusAcquire(t) ==
  /\ bpc[t] \in LockPcs
  /\ LockFree(t)
  /\ busLock' = t
  /\ bpc' = [bpc EXCEPT ![t] = BodyOf(bpc[t])]
  /\ UNCHANGED <<listenerObjs, listeners, event_history, nextEvent, bl,
                 appended, calls,
                 outsideBus>>

\* publishers that have appended their event and not yet taken the snapshot
AwaitingSnapshot(e) ==
  {u \in Threads : bpc[u] \in {"pub_lock2", "pub_snap"} /\ bl[u].name = e}

\* observer: note for those publishers that the list of e changed
NoteChange(e, newList) ==
  [u \in Threads |->
     IF u \in AwaitingSnapshot(e) /\ newList # GetListeners(listeners, e)
     THEN [bl[u] EXCEPT !.changed = TRUE] ELSE bl[u]]

\* the locals of a finished subscribe, unsubscribe, get_history,
\* clear_history or has_listeners call
ClearCall(loc) ==
  [loc EXCEPT !.sname = "none", !.slistener = 0, !.limit = 0, !.ret = "idle",
              !.history_result = <<>>, !.history_seen = <<>>,
              !.has_result = FALSE]

\* EventListener.__init__.  subscribed and unsubscribed are observers: the
\* event name a subscribe call has registered the listener for, and
\* whether an unsubscribe call for that name and this listener has ended
NewListener(cb, p, f) ==
  [callback |-> cb, priority |-> p, event_filter |-> f,
   subscribed |-> "none", unsubscribed |-> FALSE]

\* subscribe: constructs the EventListener and enters the lock
SubscribeCallback(t, e, cb, p, f) ==
  /\ CanCall(t)
  /\ LockFree(t)
  /\ listenerObjs' = Append(listenerObjs, NewListener(cb, p, f))
  /\ bl' = [bl EXCEPT ![t].sname = e, ![t].slistener = Len(listenerObjs) + 1,
                      ![t].ret = bpc[t]]
  /\ calls' = calls + 1
  /\ busLock' = t
  /\ bpc' = [bpc EXCEPT ![t] = "sub_body"]
  /\ UNCHANGED <<listeners, event_history, nextEvent, appended,
                 outsideBus>>

\* subscribe of the callback f
Subscribe(t, e, p, f) == SubscribeCallback(t, e, "f", p, f)

\* the list of event e after append(listener) alone
SubscribedListUnsorted(objs, d, e, l) == Append(GetListeners(d, e), l)

\* the list of event e after append(listener) and sort(...)
SubscribedList(objs, d, e, l) ==
  SortByPriority(objs, Append(GetListeners(d, e), l))

\* subscribe, under the lock: append, sort, release, return the listener
SubscribeBody(t) ==
  /\ bpc[t] = "sub_body"
  /\ LET e == bl[t].sname
         new == SubscribedList(listenerObjs, listeners, e, bl[t].slistener)
         noted == NoteChange(e, new)
     IN /\ listeners' = [n \in DOMAIN listeners \cup {e} |->
                           IF n = e THEN new ELSE listeners[n]]
        /\ bl' = [noted EXCEPT ![t] = ClearCall(noted[t])]
        /\ listenerObjs' =
             [listenerObjs EXCEPT ![bl[t].slistener].subscribed = e]
  /\ busLock' = NoThread
  /\ bpc' = [bpc EXCEPT ![t] = bl[t].ret]
  /\ UNCHANGED <<event_history, nextEvent, appended, calls,
                 outsideBus>>

\* unsubscribe: enters the lock
Unsubscribe(t, e, l) ==
  /\ CanCall(t)
  /\ LockFree(t)
  /\ l \in DOMAIN listenerObjs
  /\ bl' = [bl EXCEPT ![t].sname = e, ![t].slistener = l, ![t].ret = bpc[t]]
  /\ calls' = calls + 1
  /\ busLock' = t
  /\ bpc' = [bpc EXCEPT ![t] = "unsub_body"]
  /\ UNCHANGED <<listenerObjs, listeners, event_history, nextEvent,
                 appended,
                 outsideBus>>

\* unsubscribe, under the lock
UnsubscribeBody(t) ==
  /\ bpc[t] = "unsub_body"
  /\ LET e == bl[t].sname
         l == bl[t].slistener
         new == ListRemove(GetListeners(listeners, e), l)
         noted == NoteChange(e, new)
     IN /\ listeners' = IF e \in DOMAIN listeners
                        THEN [listeners EXCEPT ![e] = new]
                        ELSE listeners
        /\ bl' = [noted EXCEPT ![t] = ClearCall(noted[t])]
        /\ listenerObjs' =
             IF listenerObjs[l].subscribed = e
             THEN [listenerObjs EXCEPT ![l].unsubscribed = TRUE]
             ELSE listenerObjs
  /\ busLock' = NoThread
  /\ bpc' = [bpc EXCEPT ![t] = bl[t].ret]
  /\ UNCHANGED <<event_history, nextEvent, appended, calls,
                 outsideBus>>


\* publish, up to the first lock: constructs the Event (its timestamp is
\* taken here, before the lock)
Publish(t, e) ==
  /\ bpc[t] = "idle"
  /\ calls < MaxCalls
  /\ nextEvent' = nextEvent + 1
  /\ bl' = [bl EXCEPT ![t] = [BusLocals EXCEPT
                !.name = e, !.event = [id |-> nextEvent + 1, name |-> e]]]
  /\ calls' = calls + 1
  /\ bpc' = [bpc EXCEPT ![t] = "pub_lock1"]
  /\ UNCHANGED <<listenerObjs, listeners, event_history, busLock, appended,
                 outsideBus>>

\* publish called by a listener callback that a publish of the same thread
\* is running: a new frame on top of the dispatching one
PublishNested(t, e) ==
  /\ bpc[t] = "in_callback"
  /\ calls < MaxCalls
  /\ nextEvent' = nextEvent + 1
  /\ bl' = [bl EXCEPT ![t] = [BusLocals EXCEPT
                !.name = e, !.event = [id |-> nextEvent + 1, name |-> e],
                !.outer = <<bl[t]>>]]
  /\ calls' = calls + 1
  /\ bpc' = [bpc EXCEPT ![t] = "pub_lock1"]
  /\ UNCHANGED <<listenerObjs, listeners, event_history, busLock, appended,
                 outsideBus>>

\* _event_history after append(event) alone
StoredNoEviction(h, ev) == Append(h, ev)

\* _event_history after append(event) and the pop(0) on overflow
Stored(h, ev) ==
  LET h1 == Append(h, ev)
  IN IF Len(h1) > max_history THEN Tail(h1) ELSE h1

\* publish, first critical section: store in history
PublishAppend(t) ==
  /\ bpc[t] = "pub_append"
  /\ event_history' = Stored(event_history, bl[t].event)
  /\ appended' = Append(appended, bl[t].event)
  /\ bl' = [bl EXCEPT ![t].regAtAppend = GetListeners(listeners, bl[t].name)]
  /\ busLock' = NoThread
  /\ bpc' = [bpc EXCEPT ![t] = "pub_lock2"]
  /\ UNCHANGED <<listenerObjs, listeners, nextEvent, calls,
                 outsideBus>>

\* the lock kept while the listeners are called
HeldAfterSnapshot(t) == t

\* the end of "with self._lock:" in _get_listeners: the lock is released
\* before publish enters its loop
AfterSnapshot(t) == NoThread

\* publish calling _get_listeners: the copy of the list, taken under the lock
PublishSnapshot(t) ==
  /\ bpc[t] = "pub_snap"
  /\ bl' = [bl EXCEPT ![t].snapshot = GetListeners(listeners, bl[t].name),
                      ![t].i = 1]
  /\ busLock' = AfterSnapshot(t)
  /\ bpc' = [bpc EXCEPT ![t] = "dispatch"]
  /\ UNCHANGED <<listenerObjs, listeners, event_history, nextEvent, appended, calls,
                 outsideBus>>

\* the registered list itself instead of a copy of it
DispatchListLive(t) == GetListeners(listeners, bl[t].name)

\* the list "for listener in listeners" iterates: the copy
DispatchList(t) == bl[t].snapshot

\* should_handle: True without a filter, else what the predicate returns
FilterOutcomes(l) ==
  IF listenerObjs[l].event_filter = "None" THEN {"pass"}
  ELSE {"pass", "reject", "raise"}

\* the callback called whatever the filter returned
HandleAlways(fo) == fo \in {"pass", "reject"}

\* "if listener.should_handle(event):" the callback is called when the
\* listener has no filter or the filter returned true
ShouldHandle(fo) == fo = "pass"

\* one round of the dispatch loop up to the call of the callback
Dispatch(t, fo) ==
  /\ bpc[t] = "dispatch"
  /\ bl[t].i <= Len(DispatchList(t))
  /\ LET l == DispatchList(t)[bl[t].i]
     IN /\ fo \in FilterOutcomes(l)
        /\ \/ /\ ShouldHandle(fo)
              /\ bl' = [bl EXCEPT
                   ![t].invoked = Append(@, l),
                   ![t].rejected = IF fo = "reject" THEN @ \cup {l} ELSE @,
                   ![t].lateInvoke =
                      @ \/ l \notin Range(GetListeners(listeners, bl[t].name))]
              /\ bpc' = [bpc EXCEPT ![t] = "in_callback"]
           \/ /\ fo = "reject" /\ ~ShouldHandle(fo)
              /\ bl' = [bl EXCEPT ![t].rejected = @ \cup {l}, ![t].i = @ + 1]
              /\ UNCHANGED bpc
           \/ /\ fo = "raise"
              /\ bl' = [bl EXCEPT ![t].outcome = "filter_raised"]
              /\ bpc' = [bpc EXCEPT ![t] = "pub_done"]
  /\ UNCHANGED <<listenerObjs, listeners, event_history, busLock, nextEvent,
                 appended, calls,
                 outsideBus>>

\* the listener whose callback runs
Current(t) == bl[t].invoked[Len(bl[t].invoked)]

\* the exception of the callback leaves publish
CallbackRaisePropagates(t) ==
  /\ bl' = [bl EXCEPT ![t].cbRaised = @ \cup {Current(t)},
                      ![t].outcome = "callback_raised"]
  /\ bpc' = [bpc EXCEPT ![t] = "pub_done"]

\* where publish continues after the callback raised: handle() catches
\* the exception and logs it
AfterCallbackRaise(t) ==
  /\ bl' = [bl EXCEPT ![t].cbRaised = @ \cup {Current(t)}, ![t].i = @ + 1]
  /\ bpc' = [bpc EXCEPT ![t] = "dispatch"]

\* EventListener.handle: the callback returns or raises
Handle(t, raises) ==
  /\ bpc[t] = "in_callback"
  /\ IF raises
     THEN AfterCallbackRaise(t)
     ELSE /\ bl' = [bl EXCEPT ![t].i = @ + 1]
          /\ bpc' = [bpc EXCEPT ![t] = "dispatch"]
  /\ UNCHANGED <<listenerObjs, listeners, event_history, busLock, nextEvent,
                 appended, calls,
                 outsideBus>>

\* the loop is over: publish returns the event
PublishReturn(t) ==
  /\ bpc[t] = "dispatch"
  /\ bl[t].i > Len(DispatchList(t))
  /\ bl' = [bl EXCEPT ![t].outcome = "returned"]
  /\ bpc' = [bpc EXCEPT ![t] = "pub_done"]
  /\ UNCHANGED <<listenerObjs, listeners, event_history, busLock, nextEvent,
                 appended, calls,
                 outsideBus>>

\* the publisher goes on after publish returned or raised: the caller, or
\* the callback that called publish
PublishDone(t) ==
  /\ bpc[t] = "pub_done"
  /\ IF bl[t].outer = <<>>
     THEN /\ bl' = [bl EXCEPT ![t] = BusLocals]
          /\ bpc' = [bpc EXCEPT ![t] = "idle"]
     ELSE /\ bl' = [bl EXCEPT ![t] = bl[t].outer[1]]
          /\ bpc' = [bpc EXCEPT ![t] = "in_callback"]
  /\ UNCHANGED <<listenerObjs, listeners, event_history, busLock, nextEvent,
                 appended, calls,
                 outsideBus>>

\* get_history: enters the lock
GetHistory(t, limit) ==
  /\ CanCall(t)
  /\ LockFree(t)
  /\ bl' = [bl EXCEPT ![t].limit = limit, ![t].ret = bpc[t]]
  /\ calls' = calls + 1
  /\ busLock' = t
  /\ bpc' = [bpc EXCEPT ![t] = "hist_body"]
  /\ UNCHANGED <<listenerObjs, listeners, event_history, nextEvent,
                 appended,
                 outsideBus>>

\* get_history, under the lock: the slice
GetHistoryBody(t) ==
  /\ bpc[t] = "hist_body"
  /\ bl' = [bl EXCEPT
              ![t].history_result = LastSlice(event_history, bl[t].limit),
              ![t].history_seen = event_history]
  /\ busLock' = NoThread
  /\ bpc' = [bpc EXCEPT ![t] = "hist_done"]
  /\ UNCHANGED <<listenerObjs, listeners, event_history, nextEvent, appended, calls,
                 outsideBus>>

\* clear_history: enters the lock
ClearHistory(t) ==
  /\ CanCall(t)
  /\ LockFree(t)
  /\ bl' = [bl EXCEPT ![t].ret = bpc[t]]
  /\ calls' = calls + 1
  /\ busLock' = t
  /\ bpc' = [bpc EXCEPT ![t] = "clear_body"]
  /\ UNCHANGED <<listenerObjs, listeners, event_history, nextEvent,
                 appended,
                 outsideBus>>

\* clear_history, under the lock
ClearHistoryBody(t) ==
  /\ bpc[t] = "clear_body"
  /\ event_history' = <<>>
  /\ appended' = <<>>
  /\ bl' = [bl EXCEPT ![t] = ClearCall(bl[t])]
  /\ busLock' = NoThread
  /\ bpc' = [bpc EXCEPT ![t] = bl[t].ret]
  /\ UNCHANGED <<listenerObjs, listeners, nextEvent, calls,
                 outsideBus>>

\* has_listeners: enters the lock
HasListeners(t, e) ==
  /\ CanCall(t)
  /\ LockFree(t)
  /\ bl' = [bl EXCEPT ![t].sname = e, ![t].ret = bpc[t]]
  /\ calls' = calls + 1
  /\ busLock' = t
  /\ bpc' = [bpc EXCEPT ![t] = "has_body"]
  /\ UNCHANGED <<listenerObjs, listeners, event_history, nextEvent,
                 appended,
                 outsideBus>>

\* "event_name in self._listeners" alone
HasKey(d, e) == e \in DOMAIN d

\* event_name in self._listeners and len(self._listeners[event_name]) > 0
HasAny(d, e) == e \in DOMAIN d /\ Len(d[e]) > 0

\* has_listeners, under the lock
HasListenersBody(t) ==
  /\ bpc[t] = "has_body"
  /\ bl' = [bl EXCEPT ![t].has_result = HasAny(listeners, bl[t].sname)]
  /\ busLock' = NoThread
  /\ bpc' = [bpc EXCEPT ![t] = "has_done"]
  /\ UNCHANGED <<listenerObjs, listeners, event_history, nextEvent, appended, calls,
                 outsideBus>>

\* the caller goes on with the value get_history or has_listeners returned
QueryDone(t) ==
  /\ bpc[t] \in {"hist_done", "has_done"}
  /\ bl' = [bl EXCEPT ![t] = ClearCall(bl[t])]
  /\ bpc' = [bpc EXCEPT ![t] = bl[t].ret]
  /\ UNCHANGED <<listenerObjs, listeners, event_history, busLock, nextEvent,
                 appended, calls,
                 outsideBus>>

\* the Event objects thread t has a reference to: the event its callback
\* was called with, the event publish returned to it (whose data and
\* metadata mappings are the ones it passed in), the events of the list
\* get_history returned to it
References(t) ==
  (IF bpc[t] \in {"in_callback", "pub_done"} THEN {bl[t].event.id} ELSE {})
    \cup (IF bpc[t] = "hist_done"
          THEN {bl[t].history_result[k].id : k \in DOMAIN bl[t].history_result}
          ELSE {})

\* a holder of a reference assigns a field of the Event or changes its
\* data or metadata mapping: Event is a plain dataclass, neither frozen nor
\* copied by publish or get_history
MutateEvent(t, id) ==
  /\ id \in References(t)
  /\ eventData[id] = AsPublished
  /\ eventData' = [eventData EXCEPT ![id] = "changed"]
  /\ UNCHANGED <<busVars, metricVars, monitorVars, profilerVars>>

(* ----------------- MetricsCollector and the metrics ------------------ *)

Kinds == {"Counter", "Gauge", "Histogram", "Timer"}
MetricNames == {"a", "b"}
Amounts == {-1, 2}
Observed == {1, 3}
\* None, for Timer._start_time and Timer._duration
NoTime == -1

\* Counter.__init__, Gauge.__init__, Histogram.__init__, Timer.__init__.
\* value is Counter._value or Gauge._value; observations and lock are those
\* of the Histogram (for a Timer: of Timer.histogram), for a Counter or a
\* Gauge lock is its own _lock.  committed and scopes are observers: the
\* value the updates that entered the lock so far amount to, the number of
\* scopes of the Timer that have ended, and for every value the number of
\* observe calls made with it on the Histogram since its last reset.
NewMetric(kind, name) ==
  [name |-> name, kind |-> kind, value |-> 0, observations |-> <<>>,
   start_time |-> NoTime, duration |-> NoTime, lock |-> NoThread,
   committed |-> 0, scopes |-> 0, tally |-> [v \in Observed |-> 0]]

\* locals of a caller of the registry or of a metric.  read is what the
\* value property returned, result what stats or get_metrics returned, and
\* seen is an observer: the metric as it was when value or stats read it
MetricLocals ==
  [name |-> "none", kind |-> "none", follow |-> "none", h |-> 0,
   amount |-> 0, tmp |-> 0, idx |-> 0, result |-> <<>>, read |-> 0,
   seen |-> <<>>]

\* MetricsCollector.__init__
InitMetrics ==
  /\ inst = <<>>
  /\ metrics = <<>>
  /\ regLock = NoThread
  /\ now = 0
  /\ mpc = [t \in Threads |-> "idle"]
  /\ ml = [t \in Threads |-> MetricLocals]
  /\ mcalls = [t \in Threads |-> 0]
  /\ firstKind = [n \in MetricNames |-> "none"]


RECURSIVE SumOf(_)
SumOf(q) == IF q = <<>> THEN 0 ELSE Head(q) + SumOf(Tail(q))

CallsStarted == SumOf([k \in 1..2 |-> mcalls[IF k = 1 THEN "t1" ELSE "t2"]])

\* a caller may start a metrics operation
MayStart(t) == mpc[t] = "idle" /\ CallsStarted < MaxMetricCalls

Started(t) == [mcalls EXCEPT ![t] = @ + 1]

\* name in self._metrics
Has(name) == \E k \in DOMAIN metrics : metrics[k].name = name

\* self._metrics[name]
Lookup(name) ==
  metrics[CHOOSE k \in DOMAIN metrics : metrics[k].name = name].inst

\* self._metrics[name] = h: a new key goes last, an old key keeps its place
SetItem(name, h) ==
  IF Has(name)
  THEN [k \in DOMAIN metrics |->
          IF metrics[k].name = name THEN [name |-> name, inst |-> h]
          ELSE metrics[k]]
  ELSE Append(metrics, [name |-> name, inst |-> h])

\* a registry lock that never blocks
RegLockAlwaysFree(t) == TRUE

\* MetricsCollector._lock is free
RegLockFree(t) == regLock = NoThread

\* a metric lock that never blocks
MetricLockAlwaysFree(h) == TRUE

\* the _lock of metric h is free
MetricLockFree(h) == inst[h].lock = NoThread

\* creates also when the metric registered under the name is of another kind
MissingOrOtherKind(name, kind) ==
  ~Has(name) \/ inst[Lookup(name)].kind # kind

\* "if name not in self._metrics" of counter, gauge, histogram and timer
Missing(name, kind) == ~Has(name)

\* counter / gauge / histogram / timer: enters the lock and tests the name.
\* follow says what the caller does with the metric it gets: "return" it,
\* or enter it as a scope (measure_time)
EnterAccessor(t, kind, name, follow) ==
  /\ MayStart(t)
  /\ RegLockFree(t)
  /\ regLock' = t
  /\ ml' = [ml EXCEPT ![t] = [MetricLocals EXCEPT
               !.name = name, !.kind = kind, !.follow = follow]]
  /\ mpc' = [mpc EXCEPT ![t] =
               IF Missing(name, kind) THEN "acc_create" ELSE "acc_return"]
  /\ firstKind' = IF firstKind[name] = "none"
                  THEN [firstKind EXCEPT ![name] = kind] ELSE firstKind
  /\ mcalls' = Started(t)
  /\ UNCHANGED <<inst, metrics, now, outsideMetrics>>

\* collector.counter(name), .gauge(name), .histogram(name), .timer(name)
Accessor(t, kind, name) == EnterAccessor(t, kind, name, "return")

\* measure_time(name, collector): collector.timer(name), then "with timer"
MeasureTime(t, name) == EnterAccessor(t, "Timer", name, "scope")

\* self._metrics[name] = Kind(name, description)
AccessorCreate(t) ==
  /\ mpc[t] = "acc_create"
  /\ inst' = Append(inst, NewMetric(ml[t].kind, ml[t].name))
  /\ metrics' = SetItem(ml[t].name, Len(inst) + 1)
  /\ mpc' = [mpc EXCEPT ![t] = "acc_return"]
  /\ UNCHANGED <<regLock, now, ml, mcalls, firstKind, outsideMetrics>>

\* return self._metrics[name], leaving the lock: the caller has the metric
\* (acc_done).  measure_time goes on to "with timer:"
AccessorReturn(t) ==
  /\ mpc[t] = "acc_return"
  /\ ml' = [ml EXCEPT ![t].h = Lookup(ml[t].name)]
  /\ mpc' = [mpc EXCEPT ![t] =
               IF ml[t].follow = "scope" THEN "scope_enter" ELSE "acc_done"]
  /\ regLock' = NoThread
  /\ UNCHANGED <<inst, metrics, now, mcalls, firstKind, outsideMetrics>>

\* the caller goes on with the metric the accessor returned
AccessorDone(t) ==
  /\ mpc[t] = "acc_done"
  /\ ml' = [ml EXCEPT ![t] = MetricLocals]
  /\ mpc' = [mpc EXCEPT ![t] = "idle"]
  /\ UNCHANGED <<inst, metrics, regLock, now, mcalls, firstKind, outsideMetrics>>

\* "with timer:" calls Timer.__enter__; a metric of another kind has none
\* and the statement raises
TimerEnter(t) ==
  /\ mpc[t] = "scope_enter"
  /\ IF inst[ml[t].h].kind = "Timer"
     THEN /\ inst' = [inst EXCEPT ![ml[t].h].start_time = now]
          /\ mpc' = [mpc EXCEPT ![t] = "in_scope"]
          /\ UNCHANGED ml
     ELSE /\ ml' = [ml EXCEPT ![t] = MetricLocals]
          /\ mpc' = [mpc EXCEPT ![t] = "idle"]
          /\ UNCHANGED inst
  /\ UNCHANGED <<metrics, regLock, now, mcalls, firstKind, outsideMetrics>>

\* the scope of thread t on its Timer has ended
ScopeEnded(t) ==
  /\ ml' = [ml EXCEPT ![t] = MetricLocals]
  /\ mpc' = [mpc EXCEPT ![t] = "idle"]

\* Timer.__exit__, "if self._start_time is not None"; the body of the
\* scope returned or raised (exc), which __exit__ does not look at
TimerExit(t, exc) ==
  /\ mpc[t] = "in_scope"
  /\ IF inst[ml[t].h].start_time # NoTime
     THEN /\ mpc' = [mpc EXCEPT ![t] = "exit_compute"]
          /\ UNCHANGED <<inst, ml>>
     ELSE /\ inst' = [inst EXCEPT ![ml[t].h].scopes = @ + 1]
          /\ ScopeEnded(t)
  /\ UNCHANGED <<metrics, regLock, now, mcalls, firstKind, outsideMetrics>>

\* Timer.__exit__, "self._duration = time.time() - self._start_time": a
\* TypeError when _start_time has become None since the test
TimerExitCompute(t) ==
  /\ mpc[t] = "exit_compute"
  /\ IF inst[ml[t].h].start_time # NoTime
     THEN /\ inst' = [inst EXCEPT ![ml[t].h].duration =
                         now - inst[ml[t].h].start_time]
          /\ mpc' = [mpc EXCEPT ![t] = "exit_observe"]
          /\ UNCHANGED ml
     ELSE /\ inst' = [inst EXCEPT ![ml[t].h].scopes = @ + 1]
          /\ ScopeEnded(t)
  /\ UNCHANGED <<metrics, regLock, now, mcalls, firstKind, outsideMetrics>>

\* Timer.__exit__, "self.histogram.observe(self._duration)"
TimerExitObserve(t) ==
  /\ mpc[t] = "exit_observe"
  /\ MetricLockFree(ml[t].h)
  /\ inst' = [inst EXCEPT ![ml[t].h].observations =
                Append(@, inst[ml[t].h].duration)]
  /\ mpc' = [mpc EXCEPT ![t] = "exit_clear"]
  /\ UNCHANGED <<metrics, regLock, now, ml, mcalls, firstKind,
                 outsideMetrics>>

\* Timer.__exit__, "self._start_time = None"
TimerExitClear(t) ==
  /\ mpc[t] = "exit_clear"
  /\ inst' = [inst EXCEPT ![ml[t].h].start_time = NoTime,
                          ![ml[t].h].scopes = @ + 1]
  /\ ScopeEnded(t)
  /\ UNCHANGED <<metrics, regLock, now, mcalls, firstKind, outsideMetrics>>

\* Counter.inc, Gauge.inc (amount a) and Gauge.dec (amount -a): enters the
\* lock and reads _value
EnterAdd(t, h, a) ==
  /\ MayStart(t)
  /\ MetricLockFree(h)
  /\ inst' = [inst EXCEPT ![h].lock = t, ![h].committed = @ + a]
  /\ ml' = [ml EXCEPT ![t] = [MetricLocals EXCEPT
               !.h = h, !.amount = a, !.tmp = inst[h].value]]
  /\ mpc' = [mpc EXCEPT ![t] = "add_store"]
  /\ mcalls' = Started(t)
  /\ UNCHANGED <<metrics, regLock, now, firstKind, outsideMetrics>>

Inc(t, h, a) == inst[h].kind \in {"Counter", "Gauge"} /\ EnterAdd(t, h, a)

Dec(t, h, a) == inst[h].kind = "Gauge" /\ EnterAdd(t, h, 0 - a)

\* an update that enters the registry lock inside the lock of its metric
UpdateEntersRegistry(t) == regLock = NoThread

\* the locks an update of a metric waits for inside the lock of the metric:
\* none, the body of "with self._lock:" is the assignment alone
UpdateEntersNoLock(t) == TRUE

\* "self._value += amount" / "self._value -= amount": writes, leaves the lock
AddStore(t) ==
  /\ mpc[t] = "add_store"
  /\ UpdateEntersNoLock(t)
  /\ inst' = [inst EXCEPT ![ml[t].h].value = ml[t].tmp + ml[t].amount,
                          ![ml[t].h].lock = NoThread]
  /\ ml' = [ml EXCEPT ![t] = MetricLocals]
  /\ mpc' = [mpc EXCEPT ![t] = "idle"]
  /\ UNCHANGED <<metrics, regLock, now, mcalls, firstKind, outsideMetrics>>

\* Gauge.set
Set(t, h, v) ==
  /\ MayStart(t)
  /\ inst[h].kind = "Gauge"
  /\ MetricLockFree(h)
  /\ inst' = [inst EXCEPT ![h].value = v, ![h].committed = v]
  /\ mcalls' = Started(t)
  /\ UNCHANGED <<metrics, regLock, now, mpc, ml, firstKind, outsideMetrics>>

\* hasattr(metric, 'reset'): Counter and Histogram define reset
HasReset(kind) == kind \in {"Counter", "Histogram"}

\* the metric after Counter.reset / Histogram.reset
AfterReset(m) ==
  IF m.kind = "Counter" THEN [m EXCEPT !.value = 0]
  ELSE [m EXCEPT !.observations = <<>>]

\* observer: a reset has entered the lock of metric m
NoteReset(m) ==
  [m EXCEPT !.committed = 0, !.tally = [v \in Observed |-> 0]]

\* Counter.reset, Histogram.reset
Reset(t, h) ==
  /\ MayStart(t)
  /\ HasReset(inst[h].kind)
  /\ MetricLockFree(h)
  /\ inst' = [inst EXCEPT ![h] = NoteReset(AfterReset(inst[h]))]
  /\ mcalls' = Started(t)
  /\ UNCHANGED <<metrics, regLock, now, mpc, ml, firstKind, outsideMetrics>>

\* Histogram.observe
Observe(t, h, v) ==
  /\ MayStart(t)
  /\ inst[h].kind = "Histogram"
  /\ MetricLockFree(h)
  /\ inst' = [inst EXCEPT ![h].observations = Append(@, v),
                          ![h].tally[v] = @ + 1]
  /\ mcalls' = Started(t)
  /\ UNCHANGED <<metrics, regLock, now, mpc, ml, firstKind, outsideMetrics>>

RECURSIVE MinOf(_)
MinOf(q) ==
  IF Len(q) = 1 THEN q[1]
  ELSE LET m == MinOf(Tail(q)) IN IF Head(q) < m THEN Head(q) ELSE m

RECURSIVE MaxOf(_)
MaxOf(q) ==
  IF Len(q) = 1 THEN q[1]
  ELSE LET m == MaxOf(Tail(q)) IN IF Head(q) > m THEN Head(q) ELSE m

\* a stats that takes the first observation for the least and the last
\* for the greatest
StatsOfEnds(obs) ==
  IF obs = <<>>
  THEN [count |-> 0, sum |-> 0, min |-> 0, max |-> 0, avg |-> <<0, 1>>]
  ELSE [count |-> Len(obs), sum |-> SumOf(obs), min |-> obs[1],
        max |-> obs[Len(obs)], avg |-> <<SumOf(obs), Len(obs)>>]

\* Histogram.stats; avg is the fraction <<sum, count>>
Stats(obs) ==
  IF obs = <<>>
  THEN [count |-> 0, sum |-> 0, min |-> 0, max |-> 0, avg |-> <<0, 1>>]
  ELSE [count |-> Len(obs), sum |-> SumOf(obs), min |-> MinOf(obs),
        max |-> MaxOf(obs), avg |-> <<SumOf(obs), Len(obs)>>]

\* the value property of a Counter or a Gauge: reads _value under the lock
ReadValue(t, h) ==
  /\ MayStart(t)
  /\ inst[h].kind \in {"Counter", "Gauge"}
  /\ MetricLockFree(h)
  /\ ml' = [ml EXCEPT ![t] = [MetricLocals EXCEPT
               !.h = h, !.read = inst[h].value, !.seen = <<inst[h]>>]]
  /\ mpc' = [mpc EXCEPT ![t] = "read_done"]
  /\ mcalls' = Started(t)
  /\ UNCHANGED <<inst, metrics, regLock, now, firstKind, outsideMetrics>>

\* the stats property of a Histogram: computes the record under the lock
ReadStats(t, h) ==
  /\ MayStart(t)
  /\ inst[h].kind = "Histogram"
  /\ MetricLockFree(h)
  /\ ml' = [ml EXCEPT ![t] = [MetricLocals EXCEPT
               !.h = h, !.result = <<Stats(inst[h].observations)>>,
               !.seen = <<inst[h]>>]]
  /\ mpc' = [mpc EXCEPT ![t] = "stats_done"]
  /\ mcalls' = Started(t)
  /\ UNCHANGED <<inst, metrics, regLock, now, firstKind, outsideMetrics>>

\* the caller goes on with what value or stats returned
ReadDone(t) ==
  /\ mpc[t] \in {"read_done", "stats_done"}
  /\ ml' = [ml EXCEPT ![t] = MetricLocals]
  /\ mpc' = [mpc EXCEPT ![t] = "idle"]
  /\ UNCHANGED <<inst, metrics, regLock, now, mcalls, firstKind,
                 outsideMetrics>>

\* an entry that is metric.value whatever the type of the metric
EntryAllScalar(m) ==
  [name |-> m.name, scalar |-> TRUE, value |-> m.value, stats |-> Stats(<<>>)]

\* result[name] of get_metrics: metric.value of a Counter or Gauge,
\* metric.stats of a Histogram, metric.histogram.stats of a Timer
Entry(m) ==
  IF m.kind \in {"Counter", "Gauge"}
  THEN [name |-> m.name, scalar |-> TRUE, value |-> m.value,
        stats |-> Stats(<<>>)]
  ELSE [name |-> m.name, scalar |-> FALSE, value |-> 0,
        stats |-> Stats(m.observations)]

\* get_metrics / reset_all: enters the registry lock
EnterWalk(t, pc) ==
  /\ MayStart(t)
  /\ RegLockFree(t)
  /\ regLock' = t
  /\ ml' = [ml EXCEPT ![t] = [MetricLocals EXCEPT !.idx = 1]]
  /\ mpc' = [mpc EXCEPT ![t] = pc]
  /\ mcalls' = Started(t)
  /\ UNCHANGED <<inst, metrics, now, firstKind, outsideMetrics>>

GetMetrics(t) == EnterWalk(t, "gm_loop")

\* one round of "for name, metric in self._metrics.items()"
GetMetricsStep(t) ==
  /\ mpc[t] = "gm_loop"
  /\ ml[t].idx <= Len(metrics)
  /\ LET h == metrics[ml[t].idx].inst
     IN /\ MetricLockFree(h)
        /\ ml' = [ml EXCEPT ![t].result = Append(@, Entry(inst[h])),
                            ![t].idx = @ + 1]
  /\ UNCHANGED <<inst, metrics, regLock, now, mpc, mcalls, firstKind, outsideMetrics>>

\* the end of the loop of get_metrics / reset_all: leaves the lock, returns
LeaveWalk(t, pc, done) ==
  /\ mpc[t] = pc
  /\ ml[t].idx > Len(metrics)
  /\ regLock' = NoThread
  /\ mpc' = [mpc EXCEPT ![t] = done]
  /\ UNCHANGED <<inst, metrics, now, ml, mcalls, firstKind, outsideMetrics>>

GetMetricsReturn(t) == LeaveWalk(t, "gm_loop", "gm_done")

ResetAll(t) == EnterWalk(t, "ra_loop")

\* one round of "for metric in self._metrics.values()"
ResetAllStep(t) ==
  /\ mpc[t] = "ra_loop"
  /\ ml[t].idx <= Len(metrics)
  /\ LET h == metrics[ml[t].idx].inst
     IN IF HasReset(inst[h].kind)
        THEN /\ MetricLockFree(h)
             /\ inst' = [inst EXCEPT ![h] = NoteReset(AfterReset(inst[h]))]
        ELSE UNCHANGED inst
  /\ ml' = [ml EXCEPT ![t].idx = @ + 1]
  /\ UNCHANGED <<metrics, regLock, now, mpc, mcalls, firstKind,
                 outsideMetrics>>

ResetAllReturn(t) == LeaveWalk(t, "ra_loop", "ra_done")

\* the caller goes on after get_metrics or reset_all returned
WalkDone(t) ==
  /\ mpc[t] \in {"gm_done", "ra_done"}
  /\ ml' = [ml EXCEPT ![t] = MetricLocals]
  /\ mpc' = [mpc EXCEPT ![t] = "idle"]
  /\ UNCHANGED <<inst, metrics, regLock, now, mcalls, firstKind,
                 outsideMetrics>>

\* time passes; only a thread between Timer.__enter__ and the time.time()
\* of Timer.__exit__ can tell
Tick ==
  /\ now < MaxClock
  /\ \E t \in Threads : mpc[t] \in {"in_scope", "exit_compute"}
  /\ now' = now + 1
  /\ UNCHANGED <<inst, metrics, regLock, mpc, ml, mcalls, firstKind,
                 outsideMetrics>>

(* ---------------------------- SystemMonitor --------------------------- *)

CheckNames == {"db", "cache"}

\* what one run of a check function does: it returns (True, ...), returns
\* (False, ...), or raises
CheckOutcomes == {"healthy", "unhealthy", "raises"}

\* locals of a caller of the monitor.  ran and atStart are observers: the
\* checks check_health has run so far (with what check_func did in this
\* run and in the run before it), and the number of checks registered when
\* it was called
MonitorLocals ==
  [i |-> 0, all_healthy |-> TRUE, critical_failure |-> FALSE,
   results |-> <<>>, result |-> <<>>, ran |-> <<>>, atStart |-> 0]

\* SystemMonitor.__init__
InitMonitor ==
  /\ health_checks = <<>>
  /\ hpc = [t \in Threads |-> "idle"]
  /\ hl = [t \in Threads |-> MonitorLocals]
  /\ hcalls = 0

\* HealthCheck.__init__.  last is an observer: what the latest run of
\* check_func did
NewCheck(name, critical) ==
  [name |-> name, critical |-> critical, last |-> "none"]

\* a registration that takes the place of the checks of the same name
ReplacedByName(list, check) ==
  Append(SelectSeq(list, LAMBDA c : c.name # check.name), check)

\* self._health_checks.append(check)
Registered(list, check) == Append(list, check)

\* add_health_check: HealthCheck(name, check_func, critical) is appended.
\* Called by a caller, or by a check function that check_health is running
AddHealthCheck(t, name, critical) ==
  /\ hpc[t] \in {"idle", "in_check"}
  /\ hcalls < MaxMonitorCalls
  /\ health_checks' = Registered(health_checks, NewCheck(name, critical))
  /\ hcalls' = hcalls + 1
  /\ UNCHANGED <<hpc, hl, outsideMonitor>>

\* check_health up to the loop
CheckHealth(t) ==
  /\ hpc[t] = "idle"
  /\ hcalls < MaxMonitorCalls
  /\ hl' = [hl EXCEPT ![t] = [MonitorLocals EXCEPT
                                !.i = 1, !.atStart = Len(health_checks)]]
  /\ hpc' = [hpc EXCEPT ![t] = "ch_loop"]
  /\ hcalls' = hcalls + 1
  /\ UNCHANGED <<health_checks, outsideMonitor>>

\* "for check in self._health_checks": the list iterator reads the list
\* itself, by position; check.check() calls check_func
RunCheck(t) ==
  /\ hpc[t] = "ch_loop"
  /\ hl[t].i <= Len(health_checks)
  /\ hpc' = [hpc EXCEPT ![t] = "in_check"]
  /\ UNCHANGED <<health_checks, hl, hcalls, outsideMonitor>>

\* the status built from what an earlier run of check_func did, if any
Cached(outcome, last) == IF last = "none" THEN outcome ELSE last

\* "self.check_func()" in HealthCheck.check: every check() calls the
\* function, and what this call did is what the status is built from
Fresh(outcome, last) == outcome

\* the exception of check_func leaves check() and check_health
CheckRaisePropagates(outcome) ==
  [healthy |-> outcome = "healthy", error |-> FALSE,
   raised |-> outcome = "raises"]

\* HealthCheck.check: the HealthStatus of what check_func did; an exception
\* is caught and becomes an unhealthy status with details {"error": str(e)}
Check(outcome) ==
  [healthy |-> outcome = "healthy", error |-> outcome = "raises",
   raised |-> FALSE]

\* critical_failure set by every unhealthy check
FlagsAnyFailure(flags, status, critical) ==
  IF status.healthy THEN flags
  ELSE [all_healthy |-> FALSE, critical_failure |-> TRUE]

\* the two flags after one status: "if not status.healthy: ..."
Flags(flags, status, critical) ==
  IF status.healthy THEN flags
  ELSE [all_healthy |-> FALSE,
        critical_failure |-> flags.critical_failure \/ critical]

\* results[check.name] = {...}: dict item assignment
SetResult(results, name, entry) ==
  [n \in DOMAIN results \cup {name} |->
     IF n = name THEN entry ELSE results[n]]

\* the rest of one round of the loop, after check_func returned or raised
CheckReturns(t, outcome) ==
  /\ hpc[t] = "in_check"
  /\ LET check == health_checks[hl[t].i]
         status == Check(Fresh(outcome, check.last))
         entry == [healthy |-> status.healthy, error |-> status.error,
                   critical |-> check.critical]
         flags == Flags([all_healthy |-> hl[t].all_healthy,
                         critical_failure |-> hl[t].critical_failure],
                        status, check.critical)
     IN IF status.raised
        THEN /\ hpc' = [hpc EXCEPT ![t] = "ch_raised"]
             /\ UNCHANGED hl
        ELSE /\ hl' = [hl EXCEPT
                  ![t].results = SetResult(@, check.name, entry),
                  ![t].all_healthy = flags.all_healthy,
                  ![t].critical_failure = flags.critical_failure,
                  ![t].ran = Append(@, [idx |-> hl[t].i, name |-> check.name,
                                        critical |-> check.critical,
                                        outcome |-> outcome,
                                        before |-> check.last]),
                  ![t].i = @ + 1]
             /\ hpc' = [hpc EXCEPT ![t] = "ch_loop"]
  /\ health_checks' = [health_checks EXCEPT ![hl[t].i].last = outcome]
  /\ UNCHANGED <<hcalls, outsideMonitor>>

\* the loop is over: check_health returns the record
CheckHealthReturn(t) ==
  /\ hpc[t] = "ch_loop"
  /\ hl[t].i > Len(health_checks)
  /\ hl' = [hl EXCEPT ![t].result =
              [healthy |-> hl[t].all_healthy,
               critical_failure |-> hl[t].critical_failure,
               checks |-> hl[t].results]]
  /\ hpc' = [hpc EXCEPT ![t] = "ch_done"]
  /\ UNCHANGED <<health_checks, hcalls, outsideMonitor>>

\* the caller goes on with the record, or with the exception
CheckHealthDone(t) ==
  /\ hpc[t] \in {"ch_done", "ch_raised"}
  /\ hl' = [hl EXCEPT ![t] = MonitorLocals]
  /\ hpc' = [hpc EXCEPT ![t] = "idle"]
  /\ UNCHANGED <<health_checks, hcalls, outsideMonitor>>

\* get_system_stats, get_memory_info, get_cpu_info
StatsCalls == {"system", "memory", "cpu"}

\* the calls of the resource-stats provider that each of them makes, in
\* order
ProviderCalls(which) ==
  IF which = "system"
  THEN <<"cpu_percent", "virtual_memory", "disk_usage", "cpu_count">>
  ELSE IF which = "memory"
  THEN <<"virtual_memory", "swap_memory">>
  ELSE <<"cpu_freq", "cpu_times", "cpu_count", "cpu_count_logical",
         "cpu_percent">>

\* the record returned when every provider call returned
StatsRecord(which) ==
  IF which = "system"
  THEN [cpu_percent |-> "v", cpu_count |-> "v", memory_total |-> "v",
        memory_available |-> "v", memory_used |-> "v",
        memory_percent |-> "v", disk_total |-> "v", disk_used |-> "v",
        disk_free |-> "v", disk_percent |-> "v", timestamp |-> "v"]
  ELSE IF which = "memory"
  THEN [virtual |-> "v", swap |-> "v"]
  ELSE [count |-> "v", count_logical |-> "v", percent |-> "v",
        frequency |-> "v", times |-> "v"]

\* the exception of the provider leaves the function
ProviderRaisePropagates(message) == [raised |-> message]

\* "except Exception as e: ... return {"error": str(e)}"
ProviderFailure(message) == [error |-> message]

\* get_system_stats / get_memory_info / get_cpu_info: the provider calls
\* are made in order; failsAt is the one that raises (0: none does), and
\* its name stands for the message of the exception
SystemStats(t, which, failsAt) ==
  /\ hpc[t] = "idle"
  /\ hcalls < MaxMonitorCalls
  /\ failsAt \in 0..Len(ProviderCalls(which))
  /\ hl' = [hl EXCEPT ![t] = [MonitorLocals EXCEPT
               !.i = failsAt,
               !.result = IF failsAt = 0 THEN StatsRecord(which)
                          ELSE ProviderFailure(ProviderCalls(which)[failsAt])]]
  /\ hpc' = [hpc EXCEPT ![t] = "st_done"]
  /\ hcalls' = hcalls + 1
  /\ UNCHANGED <<health_checks, outsideMonitor>>

\* the caller goes on with the record
SystemStatsDone(t) ==
  /\ hpc[t] = "st_done"
  /\ hl' = [hl EXCEPT ![t] = MonitorLocals]
  /\ hpc' = [hpc EXCEPT ![t] = "idle"]
  /\ UNCHANGED <<health_checks, hcalls, outsideMonitor>>

(* ------------------------------ Profiler ------------------------------ *)

\* how a Profiler is used as a scope: "with Profiler()", profile_block,
\* the profile wrapper, the profile_async wrapper
ScopeKinds == {"with", "block", "wrapper", "async"}

\* Profiler.__init__: a cProfile.Profile that is not enabled and holds no
\* data.  window counts the starts that enabled it; recorded is the set of
\* windows of which the Profile holds data.  ncalls, lastCall and toggled
\* are observers: the calls made on the object, the last of them, and
\* whether they were all start or stop
NewProfiler ==
  [profiling |-> FALSE, enabled |-> FALSE, window |-> 0, recorded |-> {},
   ncalls |-> 0, lastCall |-> "none", toggled |-> TRUE]

ProfilerLocals ==
  [h |-> 0, kind |-> "none", print_stats |-> FALSE, exc |-> FALSE,
   invoked |-> 0, reported |-> FALSE, outcome |-> "none", stats |-> {}]

\* one Profiler has been constructed
InitProfiler ==
  /\ profilers = <<NewProfiler>>
  /\ ppc = [t \in Threads |-> "idle"]
  /\ pl = [t \in Threads |-> ProfilerLocals]
  /\ pcalls = 0

\* start() that enables whatever the state is
AfterStartUnguarded(p) ==
  [p EXCEPT !.enabled = TRUE, !.profiling = TRUE, !.window = @ + 1]

\* the Profiler after start(): "if not self._profiling:" enable, set the flag
AfterStart(p) ==
  IF ~p.profiling
  THEN [p EXCEPT !.enabled = TRUE, !.profiling = TRUE, !.window = @ + 1]
  ELSE p

\* the Profiler after stop(): "if self._profiling:" disable, clear the
\* flag.  The call of disable is itself recorded, so the window has data;
\* a cProfile.Profile keeps what it recorded when it is disabled or enabled
\* again
AfterStop(p) ==
  IF p.profiling
  THEN [p EXCEPT !.enabled = FALSE, !.profiling = FALSE,
                 !.recorded = IF p.enabled THEN @ \cup {p.window} ELSE @]
  ELSE p

\* observer: one more call on the object
Called(p, call) ==
  [p EXCEPT !.ncalls = @ + 1, !.lastCall = call,
            !.toggled = @ /\ call \in {"start", "stop"}]

\* profiler.start() by a caller
Start(t, h) ==
  /\ ppc[t] = "idle"
  /\ pcalls < MaxProfilerCalls
  /\ profilers' = [profilers EXCEPT ![h] = Called(AfterStart(@), "start")]
  /\ pcalls' = pcalls + 1
  /\ UNCHANGED <<ppc, pl, outsideProfiler>>

\* profiler.stop() by a caller
Stop(t, h) ==
  /\ ppc[t] = "idle"
  /\ pcalls < MaxProfilerCalls
  /\ profilers' = [profilers EXCEPT ![h] = Called(AfterStop(@), "stop")]
  /\ pcalls' = pcalls + 1
  /\ UNCHANGED <<ppc, pl, outsideProfiler>>

\* the windows of which pstats.Stats(self.profiler) finds data: create_stats
\* disables the Profile (which records that call) and reads all it holds
StatsOf(p) == p.recorded \cup (IF p.enabled THEN {p.window} ELSE {})

\* the Profiler after pstats.Stats(self.profiler): the Profile is disabled,
\* self._profiling is as it was
AfterStats(p) ==
  [p EXCEPT !.enabled = FALSE, !.recorded = StatsOf(p)]

\* get_stats() by a caller; pstats.Stats raises TypeError on a Profile
\* without data
GetStats(t, h) ==
  /\ ppc[t] = "idle"
  /\ pcalls < MaxProfilerCalls
  /\ profilers' = [profilers EXCEPT ![h] = Called(AfterStats(@), "get_stats")]
  /\ pl' = [pl EXCEPT ![t] = [ProfilerLocals EXCEPT
               !.h = h, !.stats = StatsOf(profilers[h]),
               !.outcome = IF StatsOf(profilers[h]) = {}
                           THEN "raised" ELSE "returned"]]
  /\ ppc' = [ppc EXCEPT ![t] = "stats_done"]
  /\ pcalls' = pcalls + 1
  /\ UNCHANGED outsideProfiler

\* the caller goes on with the statistics
GetStatsDone(t) ==
  /\ ppc[t] = "stats_done"
  /\ pl' = [pl EXCEPT ![t] = ProfilerLocals]
  /\ ppc' = [ppc EXCEPT ![t] = "idle"]
  /\ UNCHANGED <<profilers, pcalls, outsideProfiler>>

\* a scope is entered: Profiler() is constructed and started (__enter__,
\* or start() in profile_block and profile_async); then the body runs.
\* print_stats says whether the caller wants a report: it is an argument
\* of profile alone, the other scopes have no way to take it
ScopeEnter(t, kind, print_stats) ==
  /\ ppc[t] = "idle"
  /\ pcalls < MaxScopes
  /\ profilers' = Append(profilers, Called(AfterStart(NewProfiler), "start"))
  /\ pl' = [pl EXCEPT ![t] = [ProfilerLocals EXCEPT
               !.h = Len(profilers) + 1, !.kind = kind,
               !.print_stats = print_stats]]
  /\ ppc' = [ppc EXCEPT ![t] = "in_scope"]
  /\ pcalls' = pcalls + 1
  /\ UNCHANGED outsideProfiler

\* the body of the scope (the wrapped function) returns or raises
ScopeBody(t, exc) ==
  /\ ppc[t] = "in_scope"
  /\ pl' = [pl EXCEPT ![t].exc = exc, ![t].invoked = @ + 1]
  /\ ppc' = [ppc EXCEPT ![t] = "scope_exit"]
  /\ UNCHANGED <<profilers, pcalls, outsideProfiler>>

\* stop() only when the body returned
StopsOnReturnOnly(exc) == ~exc

\* __exit__ and the finally blocks run stop() on both paths
StopsOnExit(exc) == TRUE

\* print_stats is called in the finally block of profile_block and
\* profile_async, and after the with statement of the profile wrapper when
\* asked for (not reached when the body raised); "with Profiler()" reports
\* nothing
Reports(kind, print_stats, exc) ==
  \/ kind \in {"block", "async"}
  \/ kind = "wrapper" /\ print_stats /\ ~exc

\* the scope is left: stop(), the report, and the result or the exception
\* of the body goes to the caller (__exit__ returns None)
ScopeExit(t) ==
  /\ ppc[t] = "scope_exit"
  /\ LET h == pl[t].h
         stopped == IF StopsOnExit(pl[t].exc)
                    THEN Called(AfterStop(profilers[h]), "stop")
                    ELSE profilers[h]
         reports == Reports(pl[t].kind, pl[t].print_stats, pl[t].exc)
     IN /\ profilers' = [profilers EXCEPT ![h] =
                           IF reports THEN Called(AfterStats(stopped), "print_stats")
                           ELSE stopped]
        /\ pl' = [pl EXCEPT ![t].reported = reports,
                            ![t].outcome = IF pl[t].exc THEN "raised"
                                           ELSE "returned"]
  /\ ppc' = [ppc EXCEPT ![t] = "scope_done"]
  /\ UNCHANGED <<pcalls, outsideProfiler>>

\* the caller goes on after the scope
ScopeDone(t) ==
  /\ ppc[t] = "scope_done"
  /\ pl' = [pl EXCEPT ![t] = ProfilerLocals]
  /\ ppc' = [ppc EXCEPT ![t] = "idle"]
  /\ UNCHANGED <<profilers, pcalls, outsideProfiler>>

(* --------------------------- specifications -------------------------- *)

Init ==
  InitBus /\ InitEvents /\ InitMetrics /\ InitMonitor /\ InitProfiler

NextMetrics ==
  \/ Tick
  \/ \E t \in Threads :
       \/ \E k \in Kinds, n \in MetricNames : Accessor(t, k, n)
       \/ \E n \in MetricNames : MeasureTime(t, n)
       \/ AccessorCreate(t)
       \/ AccessorReturn(t)
       \/ AccessorDone(t)
       \/ TimerEnter(t)
       \/ \E exc \in BOOLEAN : TimerExit(t, exc)
       \/ TimerExitCompute(t)
       \/ TimerExitObserve(t)
       \/ TimerExitClear(t)
       \/ \E h \in DOMAIN inst, a \in Amounts : Inc(t, h, a)
       \/ \E h \in DOMAIN inst, a \in Amounts : Dec(t, h, a)
       \/ AddStore(t)
       \/ \E h \in DOMAIN inst, v \in Observed : Set(t, h, v)
       \/ \E h \in DOMAIN inst : Reset(t, h)
       \/ \E h \in DOMAIN inst, v \in Observed : Observe(t, h, v)
       \/ GetMetrics(t)
       \/ GetMetricsStep(t)
       \/ GetMetricsReturn(t)
       \/ ResetAll(t)
       \/ ResetAllStep(t)
       \/ ResetAllReturn(t)
       \/ WalkDone(t)

SpecMetrics == Init /\ [][NextMetrics]_vars

\* the metrics objs have been constructed and the first "registered" of
\* them are in the registry, in that order; no call is running
MetricsAre(objs, registered) ==
  /\ inst = objs
  /\ metrics = [k \in 1..registered |-> [name |-> objs[k].name, inst |-> k]]
  /\ regLock = NoThread
  /\ now = 0
  /\ mpc = [t \in Threads |-> "idle"]
  /\ ml = [t \in Threads |-> MetricLocals]
  /\ mcalls = [t \in Threads |-> 0]
  /\ firstKind = [n \in MetricNames |->
                    IF \E k \in 1..registered : objs[k].name = n
                    THEN objs[CHOOSE k \in 1..registered : objs[k].name = n].kind
                    ELSE "none"]

\* Gauge("a") and Histogram("b") have been constructed, outside any registry
InitValues ==
  /\ MetricsAre(<<NewMetric("Gauge", "a"), NewMetric("Histogram", "b")>>, 0)
  /\ InitBus /\ InitEvents /\ InitMonitor /\ InitProfiler

\* the operations of a Gauge and of a Histogram, from every thread
NextValues ==
  \E t \in Threads :
    \/ \E h \in DOMAIN inst, v \in Observed : Set(t, h, v)
    \/ \E h \in DOMAIN inst, a \in Amounts : Inc(t, h, a)
    \/ \E h \in DOMAIN inst, a \in Amounts : Dec(t, h, a)
    \/ AddStore(t)
    \/ \E h \in DOMAIN inst : ReadValue(t, h)
    \/ \E h \in DOMAIN inst, v \in Observed : Observe(t, h, v)
    \/ \E h \in DOMAIN inst : Reset(t, h)
    \/ \E h \in DOMAIN inst : ReadStats(t, h)
    \/ ReadDone(t)

SpecValues == InitValues /\ [][NextValues]_vars

\* Counter "a" after inc calls that amount to c
CounterAt(c) == [NewMetric("Counter", "a") EXCEPT !.value = c, !.committed = c]

\* Histogram "b" after the observe calls obs
HistogramWith(obs) ==
  [NewMetric("Histogram", "b") EXCEPT
     !.observations = obs,
     !.tally = [v \in Observed |->
                  Cardinality({k \in DOMAIN obs : obs[k] = v})]]

\* a registry that holds a Counter and a Histogram, both in use
InitRace ==
  /\ \E c \in {3, 4, 6}, obs \in {<<1, 3>>, <<3, 1>>} :
       MetricsAre(<<CounterAt(c), HistogramWith(obs)>>, 2)
  /\ InitBus /\ InitEvents /\ InitMonitor /\ InitProfiler

\* one reset_all of thread t1 beside one inc on the Counter or one observe
\* on the Histogram of thread t2
NextRace ==
  \/ mcalls["t1"] = 0 /\ ResetAll("t1")
  \/ ResetAllStep("t1")
  \/ ResetAllReturn("t1")
  \/ WalkDone("t1")
  \/ mcalls["t2"] = 0 /\ \E a \in Amounts : Inc("t2", 1, a)
  \/ AddStore("t2")
  \/ mcalls["t2"] = 0 /\ \E v \in Observed : Observe("t2", 2, v)

SpecRace == InitRace /\ [][NextRace]_vars

\* a registry that holds a Histogram with two observations
InitSnapshot ==
  /\ \E obs \in {<<1, 3>>, <<3, 1>>} : MetricsAre(<<HistogramWith(obs)>>, 1)
  /\ InitBus /\ InitEvents /\ InitMonitor /\ InitProfiler

\* get_metrics beside the accessors and the updates of the metrics
NextSnapshot ==
  \E t \in Threads :
    \/ \E k \in Kinds, n \in MetricNames : Accessor(t, k, n)
    \/ AccessorCreate(t)
    \/ AccessorReturn(t)
    \/ AccessorDone(t)
    \/ \E h \in DOMAIN inst, a \in Amounts : Inc(t, h, a)
    \/ AddStore(t)
    \/ \E h \in DOMAIN inst, v \in Observed : Observe(t, h, v)
    \/ GetMetrics(t)
    \/ GetMetricsStep(t)
    \/ GetMetricsReturn(t)
    \/ WalkDone(t)

SpecSnapshot == InitSnapshot /\ [][NextSnapshot]_vars

\* a registry that holds a Counter at 3
InitLocks ==
  /\ MetricsAre(<<CounterAt(3)>>, 1)
  /\ InitBus /\ InitEvents /\ InitMonitor /\ InitProfiler

\* the calls that take the registry lock, a metric lock or both, from
\* every thread
NextLocks ==
  \E t \in Threads :
    \/ \E k \in Kinds, n \in MetricNames : Accessor(t, k, n)
    \/ AccessorCreate(t)
    \/ AccessorReturn(t)
    \/ AccessorDone(t)
    \/ \E h \in DOMAIN inst, a \in Amounts : Inc(t, h, a)
    \/ AddStore(t)
    \/ \E h \in DOMAIN inst, v \in Observed : Set(t, h, v)
    \/ \E h \in DOMAIN inst, v \in Observed : Observe(t, h, v)
    \/ \E h \in DOMAIN inst : Reset(t, h)
    \/ GetMetrics(t)
    \/ GetMetricsStep(t)
    \/ GetMetricsReturn(t)
    \/ ResetAll(t)
    \/ ResetAllStep(t)
    \/ ResetAllReturn(t)
    \/ WalkDone(t)

\* the steps by which a thread goes on with the metrics call it has started
Continue(t) ==
  \/ AccessorCreate(t) \/ AccessorReturn(t) \/ AccessorDone(t)
  \/ AddStore(t)
  \/ GetMetricsStep(t) \/ GetMetricsReturn(t)
  \/ ResetAllStep(t) \/ ResetAllReturn(t)
  \/ WalkDone(t)

\* every thread that can go on with its call does
SpecLocks ==
  InitLocks /\ [][NextLocks]_vars /\ \A t \in Threads : WF_vars(Continue(t))

\* subscriptions, dispatch and has_listeners, from every thread
NextBus ==
  \E t \in Threads :
    \/ BusAcquire(t)
    \/ \E e \in EventNames, p \in Priorities, f \in Filters : Subscribe(t, e, p, f)
    \/ SubscribeBody(t)
    \/ \E e \in EventNames, l \in DOMAIN listenerObjs : Unsubscribe(t, e, l)
    \/ UnsubscribeBody(t)
    \/ \E e \in EventNames : Publish(t, e)
    \/ PublishAppend(t)
    \/ PublishSnapshot(t)
    \/ \E fo \in {"pass", "reject", "raise"} : Dispatch(t, fo)
    \/ \E raises \in BOOLEAN : Handle(t, raises)
    \/ PublishReturn(t)
    \/ PublishDone(t)
    \/ \E e \in EventNames : HasListeners(t, e)
    \/ HasListenersBody(t)
    \/ QueryDone(t)

SpecBus == Init /\ [][NextBus]_vars

\* subscribe, unsubscribe and has_listeners beside publish and
\* clear_history, from every thread; the listeners have no filter
NextListeners ==
  \E t \in Threads :
    \/ BusAcquire(t)
    \/ \E e \in EventNames, p \in Priorities : Subscribe(t, e, p, "None")
    \/ SubscribeBody(t)
    \/ \E e \in EventNames, l \in DOMAIN listenerObjs : Unsubscribe(t, e, l)
    \/ UnsubscribeBody(t)
    \/ \E e \in EventNames : Publish(t, e)
    \/ PublishAppend(t)
    \/ PublishSnapshot(t)
    \/ Dispatch(t, "pass")
    \/ \E raises \in BOOLEAN : Handle(t, raises)
    \/ PublishReturn(t)
    \/ PublishDone(t)
    \/ ClearHistory(t)
    \/ ClearHistoryBody(t)
    \/ \E e \in EventNames : HasListeners(t, e)
    \/ HasListenersBody(t)
    \/ QueryDone(t)

SpecListeners == Init /\ [][NextListeners]_vars

\* subscriptions of two callbacks, with and without filter, beside
\* unsubscribe and publish, from every thread
NextSubscriptions ==
  \E t \in Threads :
    \/ BusAcquire(t)
    \/ \E e \in EventNames, cb \in Callbacks, f \in Filters :
         SubscribeCallback(t, e, cb, 1, f)
    \/ SubscribeBody(t)
    \/ \E e \in EventNames, l \in DOMAIN listenerObjs : Unsubscribe(t, e, l)
    \/ UnsubscribeBody(t)
    \/ \E e \in EventNames : Publish(t, e)
    \/ PublishAppend(t)
    \/ PublishSnapshot(t)
    \/ \E fo \in {"pass", "reject", "raise"} : Dispatch(t, fo)
    \/ \E raises \in BOOLEAN : Handle(t, raises)
    \/ PublishReturn(t)
    \/ PublishDone(t)

SpecSubscriptions == Init /\ [][NextSubscriptions]_vars

\* the events of PreLoaded earlier publish("x") calls, oldest first
EarlierEvents == [k \in 1..PreLoaded |-> [id |-> k, name |-> "x"]]

\* the last n elements of s
LastN(s, n) == IF n >= Len(s) THEN s ELSE SubSeq(s, Len(s) - n + 1, Len(s))

\* a bus without listeners on which PreLoaded events have been published,
\* beside an empty registry
InitHistory ==
  /\ listenerObjs = <<>>
  /\ listeners = <<>>
  /\ event_history = LastN(EarlierEvents, max_history)
  /\ busLock = NoThread
  /\ nextEvent = PreLoaded
  /\ bpc = [t \in Threads |-> "idle"]
  /\ bl = [t \in Threads |-> BusLocals]
  /\ appended = EarlierEvents
  /\ calls = 0
  /\ InitEvents
  /\ InitMetrics
  /\ InitMonitor
  /\ InitProfiler

\* publish, subscribe and the history operations, from every thread
NextHistory ==
  \E t \in Threads :
    \/ BusAcquire(t)
    \/ \E e \in EventNames, p \in Priorities, f \in Filters : Subscribe(t, e, p, f)
    \/ SubscribeBody(t)
    \/ \E e \in EventNames : Publish(t, e)
    \/ PublishAppend(t)
    \/ PublishSnapshot(t)
    \/ \E fo \in {"pass", "reject", "raise"} : Dispatch(t, fo)
    \/ \E raises \in BOOLEAN : Handle(t, raises)
    \/ PublishReturn(t)
    \/ PublishDone(t)
    \/ \E limit \in Limits : GetHistory(t, limit)
    \/ GetHistoryBody(t)
    \/ ClearHistory(t)
    \/ ClearHistoryBody(t)
    \/ QueryDone(t)

SpecHistory == InitHistory /\ [][NextHistory]_vars

\* publish, subscribe and get_history, with callers that write to the
\* events they hold
NextEvents ==
  \E t \in Threads :
    \/ BusAcquire(t)
    \/ \E p \in Priorities, f \in Filters : Subscribe(t, "x", p, f)
    \/ SubscribeBody(t)
    \/ Publish(t, "x")
    \/ PublishAppend(t)
    \/ PublishSnapshot(t)
    \/ \E fo \in {"pass", "reject", "raise"} : Dispatch(t, fo)
    \/ \E raises \in BOOLEAN : Handle(t, raises)
    \/ PublishReturn(t)
    \/ PublishDone(t)
    \/ \E limit \in Limits : GetHistory(t, limit)
    \/ GetHistoryBody(t)
    \/ QueryDone(t)
    \/ \E id \in EventIds : MutateEvent(t, id)

SpecEvents == Init /\ [][NextEvents]_vars

\* every operation of the bus, also called from inside a callback
NextReentrant ==
  \E t \in Threads :
    \/ BusAcquire(t)
    \/ \E p \in Priorities : Subscribe(t, "x", p, "None")
    \/ SubscribeBody(t)
    \/ \E l \in DOMAIN listenerObjs : Unsubscribe(t, "x", l)
    \/ UnsubscribeBody(t)
    \/ Publish(t, "x")
    \/ PublishNested(t, "x")
    \/ PublishAppend(t)
    \/ PublishSnapshot(t)
    \/ Dispatch(t, "pass")
    \/ \E raises \in BOOLEAN : Handle(t, raises)
    \/ PublishReturn(t)
    \/ PublishDone(t)
    \/ GetHistory(t, 2)
    \/ GetHistoryBody(t)
    \/ ClearHistory(t)
    \/ ClearHistoryBody(t)
    \/ HasListeners(t, "x")
    \/ HasListenersBody(t)
    \/ QueryDone(t)

\* the steps by which a thread goes on with the operation it has started;
\* Handle is the callback coming to its end
Proceed(t) ==
  \/ BusAcquire(t)
  \/ SubscribeBody(t) \/ UnsubscribeBody(t)
  \/ PublishAppend(t) \/ PublishSnapshot(t)
  \/ Dispatch(t, "pass")
  \/ \E raises \in BOOLEAN : Handle(t, raises)
  \/ PublishReturn(t) \/ PublishDone(t)
  \/ GetHistoryBody(t) \/ ClearHistoryBody(t) \/ HasListenersBody(t)
  \/ QueryDone(t)

\* every thread that can go on does, and every callback terminates
SpecReentrant ==
  Init /\ [][NextReentrant]_vars /\ \A t \in Threads : WF_vars(Proceed(t))

\* the operations of the monitor, from every thread
NextMonitor ==
  \E t \in Threads :
    \/ \E name \in CheckNames, critical \in BOOLEAN :
         AddHealthCheck(t, name, critical)
    \/ CheckHealth(t)
    \/ RunCheck(t)
    \/ \E outcome \in CheckOutcomes : CheckReturns(t, outcome)
    \/ CheckHealthReturn(t)
    \/ CheckHealthDone(t)

SpecMonitor == Init /\ [][NextMonitor]_vars

\* the resource statistics of the monitor beside registrations
NextStats ==
  \E t \in Threads :
    \/ \E name \in CheckNames, critical \in BOOLEAN :
         AddHealthCheck(t, name, critical)
    \/ \E which \in StatsCalls :
         \E failsAt \in 0..Len(ProviderCalls(which)) :
           SystemStats(t, which, failsAt)
    \/ SystemStatsDone(t)

SpecStats == Init /\ [][NextStats]_vars

\* start, stop and get_stats on the one Profiler, from every thread
NextProfiler ==
  \E t \in Threads :
    \/ Start(t, 1)
    \/ Stop(t, 1)
    \/ GetStats(t, 1)
    \/ GetStatsDone(t)

SpecProfiler == Init /\ [][NextProfiler]_vars

\* the scoped uses of Profilers, from every thread
NextScopes ==
  \E t \in Threads :
    \/ \E kind \in ScopeKinds, print_stats \in BOOLEAN :
         ScopeEnter(t, kind, print_stats)
    \/ \E exc \in BOOLEAN : ScopeBody(t, exc)
    \/ ScopeExit(t)
    \/ ScopeDone(t)

SpecScopes == Init /\ [][NextScopes]_vars


(* ------------------------ claims on the EventBus ---------------------- *)

\* the priorities of a list of listeners
PriorityOf(l) == listenerObjs[l].priority

NonIncreasing(s) ==
  \A a, b \in DOMAIN s : a < b => PriorityOf(s[a]) >= PriorityOf(s[b])

\* a publish of thread t has taken its snapshot and has not ended
Dispatching(t) == bl[t].i > 0

\* the callback of listener number i of the snapshot is running (also
\* while it calls back into the bus)
InCallback(t) == bpc[t] = "in_callback" \/ bl[t].ret = "in_callback"

\* the listeners of the snapshot the loop has dealt with so far
Processed(t) ==
  SubSeq(bl[t].snapshot, 1, IF InCallback(t) THEN bl[t].i ELSE bl[t].i - 1)

\* the members of s outside the set skip, in the order of s
Without(s, skip) == SelectSeq(s, LAMBDA l : l \notin skip)

\* C1: every event name's listener list is sorted by non-increasing
\* priority in every reachable state, the snapshot of a publish is sorted
\* likewise, and the callbacks of one publish are invoked in the order of
\* the snapshot (those whose filter rejected left out), hence by
\* non-increasing priority.
C1_SortedDispatch ==
  /\ \A e \in DOMAIN listeners : NonIncreasing(listeners[e])
  /\ \A t \in Threads : Dispatching(t) =>
       /\ NonIncreasing(bl[t].snapshot)
       /\ NonIncreasing(bl[t].invoked)
       /\ bl[t].invoked = Without(Processed(t), bl[t].rejected)

\* A (priority 1) then B (priority 5) subscribed to "x"; a publish of "x"
\* has invoked B, then A
C1_Witness ==
  /\ Len(listenerObjs) = 2
  /\ PriorityOf(1) = 1 /\ PriorityOf(2) = 5
  /\ \E t \in Threads :
       /\ bpc[t] = "pub_done" /\ bl[t].name = "x"
       /\ bl[t].outcome = "returned"
       /\ bl[t].invoked = <<2, 1>>

\* C2: the listeners a publish delivers to are those of its snapshot: no
\* listener outside the snapshot is asked or invoked, whatever was
\* subscribed since, and when publish returns every listener of the
\* snapshot has been asked (and invoked unless its filter rejected),
\* whatever was unsubscribed since.
C2_SnapshotDecides ==
  \A t \in Threads : Dispatching(t) =>
    /\ Range(bl[t].invoked) \cup bl[t].rejected \subseteq Range(bl[t].snapshot)
    /\ Len(bl[t].invoked) + Cardinality(bl[t].rejected) <= Len(bl[t].snapshot)
    /\ (bpc[t] = "pub_done" /\ bl[t].outcome = "returned") =>
          Range(bl[t].snapshot) = Range(bl[t].invoked) \cup bl[t].rejected

\* a publish has returned; a listener subscribed to its event name during
\* the dispatch is registered and was not invoked
C2_Witness ==
  \E t \in Threads :
    /\ bpc[t] = "pub_done" /\ bl[t].outcome = "returned"
    /\ bl[t].invoked # <<>>
    /\ \E l \in Range(GetListeners(listeners, bl[t].name)) :
         l \notin Range(bl[t].snapshot)

\* a listener of the snapshot was invoked although it had been
\* unsubscribed before its turn came
C2_WitnessRemoved ==
  \E t \in Threads : bpc[t] = "pub_done" /\ bl[t].lateInvoke

\* C3 as claimed: the snapshot of a publish is the list that was
\* registered for the event name when the event entered the history.
C3_SnapshotIsListAtAppend ==
  \A t \in Threads : Dispatching(t) => bl[t].snapshot = bl[t].regAtAppend

\* C3 amended: the append and the snapshot are two critical sections of the
\* bus lock.  Inside each the publisher holds the lock alone; the snapshot
\* is the list registered when the event entered the history unless a
\* subscribe or unsubscribe for that name took effect between the two.
C3_TwoCriticalSections ==
  \A t \in Threads :
    /\ bpc[t] \in {"pub_append", "pub_snap"} => busLock = t
    /\ bpc[t] \in {"pub_lock1", "pub_lock2"} => busLock # t
    /\ (Dispatching(t) /\ ~bl[t].changed) =>
          bl[t].snapshot = bl[t].regAtAppend

\* a publish whose snapshot differs from the list registered at the append
C3_Witness ==
  \E t \in Threads :
    /\ Dispatching(t) /\ bl[t].changed
    /\ bl[t].snapshot # bl[t].regAtAppend

\* C4: a callback that raises never ends the publish: publish ends by
\* returning the event, or by an exception of a filter, never by one of a
\* callback; every listener of the snapshot that the loop reached and whose
\* filter passed was invoked, whichever callbacks raised before it; and a
\* publish that returns has invoked every listener of the snapshot whose
\* filter passed.
C4_CallbackIsolation ==
  \A t \in Threads :
    /\ bpc[t] = "pub_done" => bl[t].outcome \in {"returned", "filter_raised"}
    /\ Dispatching(t) =>
         /\ bl[t].cbRaised \subseteq Range(bl[t].invoked)
         /\ Range(Processed(t)) \ bl[t].rejected \subseteq Range(bl[t].invoked)
    /\ (bpc[t] = "pub_done" /\ bl[t].outcome = "returned") =>
         /\ bl[t].event.name = bl[t].name
         /\ bl[t].invoked = Without(bl[t].snapshot, bl[t].rejected)

\* the callback of the first listener raised and the second listener was
\* invoked; publish returned
C4_Witness ==
  \E t \in Threads :
    /\ bpc[t] = "pub_done" /\ bl[t].outcome = "returned"
    /\ Len(bl[t].invoked) = 2
    /\ bl[t].invoked[1] \in bl[t].cbRaised

HistoryIsLastAppended ==
  /\ Len(event_history) <= max_history
  /\ event_history = LastN(appended, max_history)

\* C5: the history never holds more than max_history events and is, in
\* order, the last min(n, max_history) of the n events appended since the
\* last clear_history; get_history(limit) with limit >= max_history returns
\* exactly that.
C5_BoundedHistory ==
  /\ []HistoryIsLastAppended
  /\ [][\A t \in Threads :
          (bpc[t] = "hist_body" /\ bpc'[t] = "hist_done"
             /\ bl[t].limit >= max_history) =>
          bl'[t].history_result = LastN(appended, max_history)]_vars

\* 105 events were published; get_history(200) returned events 6 .. 105
C5_Witness ==
  \E t \in Threads :
    /\ bpc[t] = "hist_done" /\ bl[t].limit = 200
    /\ Len(appended) = 105
    /\ Len(bl[t].history_result) = 100
    /\ bl[t].history_result = SubSeq(appended, 6, 105)
    /\ \A k \in 1..5 : appended[k] \notin Range(bl[t].history_result)


\* in s, listeners of equal priority stand in the order of their
\* subscription (listener ids are given in that order)
TiesInSubscriptionOrder(s) ==
  \A a, b \in DOMAIN s :
    (a < b /\ PriorityOf(s[a]) = PriorityOf(s[b])) => s[a] < s[b]

\* C14: in every listener list, in every snapshot and in the order in
\* which a publish invokes callbacks, listeners of equal priority stand in
\* the order in which they were subscribed, whatever subscribe and
\* unsubscribe calls came later.
C14_StableTies ==
  /\ \A e \in DOMAIN listeners : TiesInSubscriptionOrder(listeners[e])
  /\ \A t \in Threads : Dispatching(t) =>
       /\ TiesInSubscriptionOrder(bl[t].snapshot)
       /\ TiesInSubscriptionOrder(bl[t].invoked)

\* two listeners of equal priority subscribed to one event name; a publish
\* has invoked the one subscribed first, then the other
C14_Witness ==
  /\ Len(listenerObjs) = 2
  /\ PriorityOf(1) = PriorityOf(2)
  /\ \E t \in Threads :
       /\ bpc[t] = "pub_done" /\ bl[t].outcome = "returned"
       /\ bl[t].invoked = <<1, 2>>

\* C15: a listener whose filter returned false for the event of a publish
\* is not invoked by that publish; the event is in the history all the
\* same; and the publish, when it returns, has invoked every other
\* listener of its snapshot.
C15_FilterSuppresses ==
  \A t \in Threads : Dispatching(t) =>
    /\ Range(bl[t].invoked) \cap bl[t].rejected = {}
    /\ bl[t].event \in Range(event_history)
    /\ (bpc[t] = "pub_done" /\ bl[t].outcome = "returned") =>
         \A l \in Range(bl[t].snapshot) \ bl[t].rejected :
           l \in Range(bl[t].invoked)

\* a publish has returned: the filter of one listener of the snapshot
\* returned false, another listener was invoked, the event is recorded
C15_Witness ==
  \E t \in Threads :
    /\ bpc[t] = "pub_done" /\ bl[t].outcome = "returned"
    /\ bl[t].rejected # {}
    /\ bl[t].invoked # <<>>
    /\ bl[t].event \in Range(event_history)

\* the positions inside a "with self._lock:" block
InsideLock ==
  {"sub_body", "unsub_body", "pub_append", "pub_snap", "hist_body",
   "clear_body", "has_body"}

\* no thread holds the bus lock outside the "with self._lock:" blocks
LockOnlyInside ==
  /\ \A t \in Threads : bpc[t] \notin InsideLock => busLock # t
  /\ busLock # NoThread => bpc[busLock] \in InsideLock

\* C13: the bus lock is held only inside the "with self._lock:" blocks,
\* never while publish runs a filter or a callback, and every operation
\* that a caller or a callback has started comes to its end: a publish is
\* followed by the state in which its thread runs no operation.
C13_ReentrantCallbacks ==
  /\ []LockOnlyInside
  /\ \A t \in Threads : (bpc[t] # "idle") ~> (bpc[t] = "idle")

\* a publish called from inside a callback has returned to that callback
C13_Witness ==
  \E t \in Threads :
    /\ bpc[t] = "pub_done" /\ bl[t].outcome = "returned"
    /\ bl[t].outer # <<>>
    /\ bl[t].outer[1].invoked # <<>>


\* the lesser of two numbers
Least(a, b) == IF a <= b THEN a ELSE b

\* C16: get_history(limit) returns at most limit events, namely the
\* min(limit, size) last ones of the history, oldest first.
C16_HistoryLimit ==
  \A t \in Threads : bpc[t] = "hist_done" =>
    /\ Len(bl[t].history_result) <= bl[t].limit
    /\ bl[t].history_result =
         LastN(bl[t].history_seen,
               Least(bl[t].limit, Len(bl[t].history_seen)))


\* C17: every event of the history, and the event of every publish that is
\* dispatching, has the fields it was published with.
C17_EventImmutable ==
  /\ \A k \in DOMAIN event_history :
       eventData[event_history[k].id] = AsPublished
  /\ \A t \in Threads : Dispatching(t) =>
       eventData[bl[t].event.id] = AsPublished


\* the list of e as a caller of has_listeners or publish finds it
ListOf(d, e) == IF e \in DOMAIN d THEN d[e] ELSE <<>>

\* C21: an unsubscribe(e, h) call takes h out of the list of e when it is
\* there and otherwise changes nothing and returns (unknown name, handle
\* subscribed to another name, handle already removed); in both cases the
\* other members of the list of e keep their order, the registered names
\* and the lists of the other names are as before, and so is the history.
C21_UnsubscribeFrame ==
  [][\A t \in Threads :
       (bpc[t] = "unsub_body" /\ bpc'[t] # "unsub_body") =>
         LET e == bl[t].sname
             h == bl[t].slistener
         IN /\ bpc'[t] = bl[t].ret
            /\ DOMAIN listeners' = DOMAIN listeners
            /\ \A n \in DOMAIN listeners :
                 listeners'[n] = IF n = e THEN Without(listeners[n], {h})
                                 ELSE listeners[n]
            /\ h \notin Range(ListOf(listeners, e)) => listeners' = listeners
            /\ h \notin Range(ListOf(listeners', e))
            /\ event_history' = event_history]_vars

\* two listeners were subscribed to one name; an unsubscribe has taken the
\* first one out: it is in no list and the other one is still registered
C21_Witness ==
  /\ Len(listenerObjs) = 2
  /\ listenerObjs[1].unsubscribed
  /\ \A n \in DOMAIN listeners : 1 \notin Range(listeners[n])
  /\ listenerObjs[2].subscribed = listenerObjs[1].subscribed
  /\ ListOf(listeners, listenerObjs[1].subscribed) = <<2>>
  /\ \A t \in Threads : bpc[t] = "idle"

\* the subscriptions to e that were made and not removed
Live(e) ==
  {l \in DOMAIN listenerObjs :
     listenerObjs[l].subscribed = e /\ ~listenerObjs[l].unsubscribed}

\* C30: in every reachable state, whatever publish and clear_history
\* calls were made, the list of e is non-empty iff a subscription to e was
\* made and not removed since; and has_listeners(e) returns just that:
\* false for a name never subscribed to, false again once the last
\* listener of e has been unsubscribed.
C30_HasListeners ==
  /\ [](\A e \in EventNames : (ListOf(listeners, e) # <<>>) <=> (Live(e) # {}))
  /\ [][\A t \in Threads :
          (bpc[t] = "has_body" /\ bpc'[t] = "has_done") =>
            (bl'[t].has_result <=> (Live(bl[t].sname) # {}))]_vars

\* has_listeners returned false for a name whose only listener had been
\* unsubscribed
C30_Witness ==
  \E t \in Threads :
    /\ bpc[t] = "has_done" /\ ~bl[t].has_result
    /\ bl[t].sname \in DOMAIN listeners
    /\ \E l \in DOMAIN listenerObjs :
         /\ listenerObjs[l].subscribed = bl[t].sname
         /\ listenerObjs[l].unsubscribed


\* a publish of thread t has ended and its event is in the history
EventKept(t) == bpc[t] = "pub_done" => bl[t].event \in Range(event_history)

\* C31: an exception of a filter predicate is isolated as one of a
\* callback is: every publish ends by returning the event, never by an
\* exception; its event is in the history; and its loop has gone through
\* the whole snapshot, so that the listeners after the one whose filter
\* raised were asked and invoked.
C31_FilterRaiseIsolated ==
  \A t \in Threads : bpc[t] = "pub_done" =>
    /\ bl[t].outcome = "returned"
    /\ EventKept(t)
    /\ bl[t].i > Len(bl[t].snapshot)
    /\ bl[t].invoked = Without(bl[t].snapshot, bl[t].rejected)

\* what does hold when a filter raises: the event is in the history, no
\* callback ran after the filter raised, and the publish ends at the
\* listener whose filter raised
FilterRaiseEndsPublish ==
  \A t \in Threads :
    (bpc[t] = "pub_done" /\ bl[t].outcome = "filter_raised") =>
      /\ EventKept(t)
      /\ bl[t].i \in DOMAIN bl[t].snapshot
      /\ bl[t].snapshot[bl[t].i] \notin Range(bl[t].invoked)
      /\ listenerObjs[bl[t].snapshot[bl[t].i]].event_filter # "None"
      /\ Range(bl[t].invoked) \subseteq
           Range(SubSeq(bl[t].snapshot, 1, bl[t].i - 1))


\* the timestamp of an Event: datetime.now() at its construction; the ids
\* number the constructions, so a lesser id is an earlier timestamp
Timestamp(ev) == ev.id

\* C32: the history is chronological by timestamp: of two events in the
\* history, the one stored earlier has a timestamp not later than that of
\* the one stored after it.
C32_HistoryChronological ==
  \A a, b \in DOMAIN event_history :
    a < b => Timestamp(event_history[a]) <= Timestamp(event_history[b])

\* what does hold: the history is in the order of the appends, and an
\* event constructed by a publisher that has not yet entered the lock for
\* the append is in no history
HistoryInAppendOrder ==
  /\ event_history = LastN(appended, max_history)
  /\ \A t \in Threads : bpc[t] \in {"pub_lock1", "pub_append"} =>
       bl[t].event \notin Range(event_history)


\* no member of s stands in it twice
NoRepeat(s) == \A j, k \in DOMAIN s : s[j] = s[k] => j = k

\* the number of times the publish of thread t has invoked callback cb
RunsOf(t, cb) ==
  Cardinality({k \in DOMAIN bl[t].invoked :
                 listenerObjs[bl[t].invoked[k]].callback = cb})

\* the subscriptions of callback cb in the snapshot of thread t whose
\* filter did not return false
PassedIn(t, cb) ==
  {l \in Range(bl[t].snapshot) \ bl[t].rejected :
     listenerObjs[l].callback = cb}

\* C36: every subscribe call makes a subscription of its own.  A publish
\* of e invokes only subscriptions of its snapshot that were made to
\* exactly e and whose filter did not reject, each at most once; when it
\* returns it has run every callback once per such subscription (twice a
\* callback that is subscribed twice).  An unsubscribe takes out the
\* subscription of its handle alone: every other subscription, those of
\* the same callback included, stays where it is.
C36_SubscriptionPerHandle ==
  /\ [](\A t \in Threads : Dispatching(t) =>
          /\ NoRepeat(bl[t].snapshot)
          /\ NoRepeat(bl[t].invoked)
          /\ \A l \in Range(bl[t].invoked) :
               /\ l \in Range(bl[t].snapshot) \ bl[t].rejected
               /\ listenerObjs[l].subscribed = bl[t].name
          /\ (bpc[t] = "pub_done" /\ bl[t].outcome = "returned") =>
               \A cb \in Callbacks :
                 RunsOf(t, cb) = Cardinality(PassedIn(t, cb)))
  /\ [][\A t \in Threads :
          (bpc[t] = "unsub_body" /\ bpc'[t] # "unsub_body") =>
            /\ bl[t].slistener \notin Range(ListOf(listeners', bl[t].sname))
            /\ \A n \in DOMAIN listeners :
                 \A l \in Range(listeners[n]) \ {bl[t].slistener} :
                   l \in Range(listeners'[n])]_vars

\* callback f was subscribed twice to one name; a publish of that name
\* has returned after running f twice, once for each subscription
C36_Witness ==
  \E t \in Threads :
    /\ bpc[t] = "pub_done" /\ bl[t].outcome = "returned"
    /\ bl[t].invoked = <<1, 2>>
    /\ listenerObjs[1].callback = "f" /\ listenerObjs[2].callback = "f"
    /\ RunsOf(t, "f") = 2

\* callback f was subscribed twice to one name and the first subscription
\* was unsubscribed: the second is still registered
C36_WitnessUnsubscribed ==
  /\ Len(listenerObjs) = 2
  /\ listenerObjs[1].callback = listenerObjs[2].callback
  /\ listenerObjs[1].unsubscribed
  /\ ListOf(listeners, listenerObjs[1].subscribed) = <<2>>


(* --------------- claims on the metrics and the registry --------------- *)

\* an accessor call of thread t has returned the metric ml[t].h
Holds(t) == mpc[t] \in {"acc_done", "scope_enter"}

\* thread t is inside Timer.__exit__ of metric h
Exiting(t, h) ==
  mpc[t] \in {"exit_compute", "exit_observe", "exit_clear"} /\ ml[t].h = h

\* C6: whenever no thread is inside __exit__ of a Timer, the histogram of
\* the Timer holds one observation for every scope that has ended.
C6_OneObservationPerScope ==
  \A h \in DOMAIN inst :
    (inst[h].kind = "Timer" /\ \A t \in Threads : ~Exiting(t, h)) =>
      Len(inst[h].observations) = inst[h].scopes

\* only thread t has called the registry and its metrics
Alone(t) == \A u \in Threads \ {t} : mcalls[u] = 0

\* C7: when reset_all returns and no other thread has touched the
\* registry, every registered metric has value 0 and no observations.
C7_ResetAllZeroes ==
  \A t \in Threads : (mpc[t] = "ra_done" /\ Alone(t)) =>
    \A k \in DOMAIN metrics :
      /\ inst[metrics[k].inst].value = 0
      /\ inst[metrics[k].inst].observations = <<>>

\* C8: whenever no inc is inside the lock of a Counter, its value is the
\* sum of the amounts of the inc calls that entered the lock since the
\* last reset (0 after a reset).
C8_CounterSum ==
  \A h \in DOMAIN inst :
    (inst[h].kind = "Counter" /\ inst[h].lock = NoThread) =>
      inst[h].value = inst[h].committed

\* both threads have incremented one Counter, by 2 and by -1
C8_Witness ==
  /\ mcalls["t1"] > 0 /\ mcalls["t2"] > 0
  /\ \A t \in Threads : mpc[t] = "idle"
  /\ \E h \in DOMAIN inst :
       inst[h].kind = "Counter" /\ inst[h].value = 1 /\ inst[h].committed = 1

\* C9: no two metric objects are ever constructed for one name, and every
\* accessor call returns the object registered under its name, so two
\* calls with one name return the same object.
C9_OneInstancePerName ==
  /\ \A g, h \in DOMAIN inst : inst[g].name = inst[h].name => g = h
  /\ \A t \in Threads : Holds(t) =>
       Has(ml[t].name) /\ Lookup(ml[t].name) = ml[t].h
  /\ \A t, u \in Threads :
       (Holds(t) /\ Holds(u) /\ ml[t].name = ml[u].name) => ml[t].h = ml[u].h

\* the two threads have each called an accessor with the same name and
\* got the same object
C9_Witness ==
  /\ mpc["t1"] = "acc_done" /\ mpc["t2"] = "acc_done"
  /\ ml["t1"].name = ml["t2"].name
  /\ ml["t1"].h = ml["t2"].h

KindIsFirstKind ==
  /\ \A k \in DOMAIN metrics :
       inst[metrics[k].inst].kind = firstKind[metrics[k].name]
  /\ \A t \in Threads : Holds(t) =>
       inst[ml[t].h].kind = firstKind[ml[t].name]

RECURSIVE Total(_, _)
Total(f, S) ==
  IF S = {} THEN 0
  ELSE LET v == CHOOSE x \in S : TRUE IN f[v] + Total(f, S \ {v})

\* the values observed at least once
Present(tally) == {v \in DOMAIN tally : tally[v] > 0}

\* what stats is to return for the observations counted in tally: it does
\* not depend on the order in which they were made
StatsFor(tally) ==
  LET count == Total(tally, DOMAIN tally)
      sum == Total([v \in DOMAIN tally |-> v * tally[v]], DOMAIN tally)
  IN IF count = 0
     THEN [count |-> 0, sum |-> 0, min |-> 0, max |-> 0, avg |-> <<0, 1>>]
     ELSE [count |-> count, sum |-> sum,
           min |-> CHOOSE v \in Present(tally) :
                     \A w \in Present(tally) : v <= w,
           max |-> CHOOSE v \in Present(tally) :
                     \A w \in Present(tally) : v >= w,
           avg |-> <<sum, count>>]

\* C22: the record a stats call on a Histogram returned has count, sum,
\* min, max and avg of the observe calls made on it since its last reset,
\* whatever their order, and is all zeros when there was none (initially
\* and after a reset); avg is sum / count.
C22_HistogramStats ==
  \A t \in Threads : mpc[t] = "stats_done" =>
    LET r == ml[t].result[1]
        want == StatsFor(ml[t].seen[1].tally)
    IN /\ r.count = want.count /\ r.sum = want.sum
       /\ r.min = want.min /\ r.max = want.max
       /\ r.avg[1] * want.avg[2] = want.avg[1] * r.avg[2]
       /\ r.avg[2] > 0
       /\ r.count = 0 => r.sum = 0 /\ r.min = 0 /\ r.max = 0 /\ r.avg[1] = 0

\* stats after observe(3), observe(1): count 2, sum 4, min 1, max 3, avg 4/2
C22_Witness ==
  \E t \in Threads :
    /\ mpc[t] = "stats_done"
    /\ ml[t].seen[1].observations = <<3, 1>>
    /\ ml[t].result[1] =
         [count |-> 2, sum |-> 4, min |-> 1, max |-> 3, avg |-> <<4, 2>>]

\* C24: whenever no inc or dec is inside the lock of a Gauge, its value is
\* that of the last set that entered the lock (0 if none) plus the inc
\* amounts minus the dec amounts that entered the lock after it; and a read
\* of value returns the value at such a moment.
C24_GaugeValue ==
  /\ \A h \in DOMAIN inst :
       (inst[h].kind = "Gauge" /\ inst[h].lock = NoThread) =>
         inst[h].value = inst[h].committed
  /\ \A t \in Threads :
       (mpc[t] = "read_done" /\ inst[ml[t].h].kind = "Gauge") =>
         /\ ml[t].seen[1].lock = NoThread
         /\ ml[t].read = ml[t].seen[1].committed

\* after set(3) and inc(2) the value is read as 5
C24_Witness ==
  \E t \in Threads :
    /\ mpc[t] = "read_done" /\ inst[ml[t].h].kind = "Gauge"
    /\ ml[t].read = 5
    /\ CallsStarted = 3

\* thread t takes a step of get_metrics: the call, a round of the loop or
\* the return
Walks(t) ==
  /\ "gm_loop" \in {mpc[t], mpc'[t]}
  /\ mpc'[t] # mpc[t] \/ ml'[t] # ml[t]

\* the entry get_metrics is to give for metric m
EntryFor(m) ==
  IF m.kind \in {"Counter", "Gauge"}
  THEN [name |-> m.name, scalar |-> TRUE, value |-> m.value]
  ELSE [name |-> m.name, scalar |-> FALSE, stats |-> Stats(m.observations)]

\* entry x of the result says what EntryFor wants
Gives(x, want) ==
  /\ x.name = want.name /\ x.scalar = want.scalar
  /\ IF want.scalar THEN x.value = want.value ELSE x.stats = want.stats

\* C23: a get_metrics call holds the registry lock from the call to the
\* return, so the registry is the same all along; it returns one entry for
\* every registered name and no other; each entry is the scalar value of
\* the Counter or Gauge, or the stats record of the Histogram or of the
\* histogram of the Timer, as it is when the loop reads it; and no step of
\* the call changes the registry or a metric.
C23_GetMetrics ==
  /\ [](\A t \in Threads : mpc[t] = "gm_loop" => regLock = t)
  /\ [][\A t \in Threads :
          /\ mpc[t] = "gm_loop" => metrics' = metrics
          /\ Walks(t) => (metrics' = metrics /\ inst' = inst)
          /\ (Walks(t) /\ Len(ml'[t].result) > Len(ml[t].result)) =>
                /\ Len(ml'[t].result) = Len(ml[t].result) + 1
                /\ Gives(ml'[t].result[Len(ml'[t].result)],
                         EntryFor(inst[metrics[Len(ml'[t].result)].inst]))
          /\ (mpc[t] = "gm_loop" /\ mpc'[t] = "gm_done") =>
                /\ Len(ml'[t].result) = Len(metrics)
                /\ \A k \in DOMAIN metrics :
                     ml'[t].result[k].name = metrics[k].name
                /\ \A j, k \in DOMAIN metrics :
                     metrics[j].name = metrics[k].name => j = k]_vars

\* get_metrics returned the stats of the Histogram (two observations) and
\* the value 2 of a Counter or Gauge registered and incremented since
C23_Witness ==
  \E t \in Threads :
    /\ mpc[t] = "gm_done"
    /\ Len(ml[t].result) = 2
    /\ ~ml[t].result[1].scalar /\ ml[t].result[1].stats.count = 2
    /\ ml[t].result[2].scalar /\ ml[t].result[2].value = 2

\* the reset_all and the update have both returned
RaceOver == \A t \in Threads : mpc[t] = "idle" /\ mcalls[t] = 1

\* C25: after a reset_all that ran beside one inc(a) on a Counter of the
\* registry or one observe(v) on a Histogram of it, the Counter is 0 or a
\* and the Histogram has no observation or the single observation v, as
\* the update entered the lock of the metric before or after the reset;
\* nothing of what the metrics held before the reset is left.
C25_ResetRace ==
  RaceOver =>
    /\ inst[1].value \in {0} \cup Amounts
    /\ inst[1].value = inst[1].committed
    /\ inst[2].observations \in {<<>>} \cup {<<v>> : v \in Observed}
    /\ Len(inst[2].observations) = Total(inst[2].tally, Observed)
    /\ inst[1].value = 0 \/ inst[2].observations = <<>>

\* the inc(2) landed after the reset of the Counter: the value is 2
C25_Witness ==
  /\ RaceOver
  /\ inst[1].value = 2
  /\ inst[2].observations = <<>>


\* the metric locks thread t holds
MetricLocksOf(t) == {h \in DOMAIN inst : inst[h].lock = t}

\* a call of thread t is running
Running(t) == mpc[t] # "idle"

\* some running call can take its next step
SomeCallGoesOn == \E t \in Threads : Running(t) /\ ENABLED Continue(t)

\* the registry lock is entered only by a thread that holds no metric
\* lock, and a metric lock is entered by a thread that holds no other
\* metric lock
RegistryThenMetric ==
  \A t \in Threads :
    /\ (regLock # t /\ regLock' = t) => MetricLocksOf(t) = {}
    /\ \A h \in DOMAIN inst :
         (inst[h].lock # t /\ h \in DOMAIN inst' /\ inst'[h].lock = t) =>
           MetricLocksOf(t) = {}

\* C33: the locks are entered in the order registry, then metric: no
\* thread enters the registry lock, or a second metric lock, while it
\* holds a metric lock.  So no state is reached in which calls are running
\* and none of them can go on, and every call that has started comes to
\* its end.
C33_LockOrder ==
  /\ [][RegistryThenMetric]_vars
  /\ []((\E t \in Threads : Running(t)) => SomeCallGoesOn)
  /\ \A t \in Threads : Running(t) ~> ~Running(t)

\* get_metrics or reset_all holds the registry lock and waits for the lock
\* of the Counter, which an inc of the other thread holds
C33_Witness ==
  \E t \in Threads :
    /\ mpc[t] \in {"gm_loop", "ra_loop"} /\ regLock = t
    /\ ml[t].idx \in DOMAIN metrics
    /\ inst[metrics[ml[t].idx].inst].lock \notin {NoThread, t}
    /\ ~ENABLED Continue(t)


(* ---------------------- claims on the SystemMonitor ------------------- *)

\* check_health of thread t has returned its record
Returned(t) == hpc[t] = "ch_done"

\* the checks a check_health has run that did not come out healthy
Failed(t) == {k \in DOMAIN hl[t].ran : hl[t].ran[k].outcome # "healthy"}

\* C11: in the record check_health returns, healthy is true iff every check
\* it ran was healthy, and critical_failure is true iff some check it ran
\* is critical and was not healthy.
C11_Aggregate ==
  \A t \in Threads : Returned(t) =>
    /\ hl[t].result.healthy = (Failed(t) = {})
    /\ hl[t].result.critical_failure =
         (\E k \in Failed(t) : hl[t].ran[k].critical)

\* a passing critical check and a failing non-critical one: healthy is
\* false and critical_failure is false
C11_Witness ==
  \E t \in Threads :
    /\ Returned(t)
    /\ Len(hl[t].ran) = 2
    /\ hl[t].ran[1].critical /\ hl[t].ran[1].outcome = "healthy"
    /\ ~hl[t].ran[2].critical /\ hl[t].ran[2].outcome = "unhealthy"
    /\ ~hl[t].result.healthy /\ ~hl[t].result.critical_failure

\* the checks a check_health has run whose function raised
Raised(t) == {k \in DOMAIN hl[t].ran : hl[t].ran[k].outcome = "raises"}

\* the last check named n that a check_health has run
LastRun(t, n) ==
  CHOOSE k \in DOMAIN hl[t].ran :
    /\ hl[t].ran[k].name = n
    /\ \A j \in DOMAIN hl[t].ran : hl[t].ran[j].name = n => j <= k

\* C12: a check function that raises never ends check_health; the status
\* of that check is unhealthy and carries the error, it is what the record
\* holds under the check's name once the check has run (until a later check
\* of the same name is run), it makes healthy false and, when the check is
\* critical, critical_failure true; and a check_health that returns has
\* run, in order, every check that was registered when it was called.
C12_CheckRaiseIsolated ==
  \A t \in Threads :
    /\ hpc[t] # "ch_raised"
    /\ \A n \in DOMAIN hl[t].results :
         LET k == LastRun(t, n)
         IN /\ hl[t].results[n].healthy = (hl[t].ran[k].outcome = "healthy")
            /\ hl[t].results[n].error = (k \in Raised(t))
            /\ hl[t].results[n].critical = hl[t].ran[k].critical
    /\ {hl[t].ran[k].name : k \in DOMAIN hl[t].ran} = DOMAIN hl[t].results
    /\ Raised(t) # {} => ~hl[t].all_healthy
    /\ (\E k \in Raised(t) : hl[t].ran[k].critical) => hl[t].critical_failure
    /\ \A k \in DOMAIN hl[t].ran : hl[t].ran[k].idx = k
    /\ Returned(t) => Len(hl[t].ran) >= hl[t].atStart

\* the function of the first check raised, the check after it was run, and
\* check_health returned the error under the first check's name
C12_Witness ==
  \E t \in Threads :
    /\ Returned(t)
    /\ Len(hl[t].ran) = 2
    /\ hl[t].ran[1].outcome = "raises" /\ hl[t].ran[1].critical
    /\ hl[t].ran[2].outcome = "healthy"
    /\ hl[t].ran[1].name # hl[t].ran[2].name
    /\ hl[t].result.checks[hl[t].ran[1].name].error
    /\ ~hl[t].result.healthy /\ hl[t].result.critical_failure

\* list is part of longer, at its start
StartsWith(longer, list) ==
  /\ Len(list) <= Len(longer)
  /\ \A k \in DOMAIN list :
       /\ longer[k].name = list[k].name
       /\ longer[k].critical = list[k].critical

\* the run number k of a check_health was that of check number k of the
\* list
RanInOrder(t) ==
  /\ Len(hl[t].ran) <= Len(health_checks)
  /\ \A k \in DOMAIN hl[t].ran :
       /\ hl[t].ran[k].idx = k
       /\ hl[t].ran[k].name = health_checks[k].name
       /\ hl[t].ran[k].critical = health_checks[k].critical

\* C26: add_health_check appends whatever names are registered: no step
\* takes a check out of the list or changes its place, and a registration
\* makes the list one longer.  A check_health that returns has run every
\* check that was registered when it was called, those of equal name
\* included, and every one of them that failed has made healthy false and,
\* if critical, critical_failure true.
C26_DuplicateNamesKept ==
  /\ [][/\ StartsWith(health_checks', health_checks)
        /\ hcalls' > hcalls /\ hl' = hl /\ hpc' = hpc =>
             Len(health_checks') = Len(health_checks) + 1]_vars
  /\ [](\A t \in Threads : Returned(t) =>
          /\ RanInOrder(t)
          /\ Len(hl[t].ran) >= hl[t].atStart
          /\ \A k \in DOMAIN hl[t].ran :
               hl[t].ran[k].outcome # "healthy" =>
                 /\ ~hl[t].result.healthy
                 /\ hl[t].ran[k].critical => hl[t].result.critical_failure)

\* two checks were registered under one name; check_health ran both: the
\* first, critical, failed and the second passed; healthy is false and
\* critical_failure is true
C26_Witness ==
  \E t \in Threads :
    /\ Returned(t)
    /\ Len(health_checks) = 2
    /\ health_checks[1].name = health_checks[2].name
    /\ Len(hl[t].ran) = 2
    /\ hl[t].ran[1].critical /\ hl[t].ran[1].outcome = "unhealthy"
    /\ hl[t].ran[2].outcome = "healthy"
    /\ ~hl[t].result.healthy /\ hl[t].result.critical_failure

\* C29: a check_health call runs the checks one after the other in the
\* order of the list, each once, and when it returns it has run every
\* registered check; the status of a check is built from what its function
\* did in this run, whatever it did in the run before, and the entry the
\* record holds under a name is that of the last check of that name run by
\* this call.
C29_FreshSequential ==
  /\ [](\A t \in Threads :
          /\ RanInOrder(t)
          /\ hpc[t] \in {"ch_loop", "in_check"} => Len(hl[t].ran) = hl[t].i - 1
          /\ \A n \in DOMAIN hl[t].results :
               hl[t].results[n].healthy =
                 (hl[t].ran[LastRun(t, n)].outcome = "healthy"))
  /\ [][\A t \in Threads :
          /\ (hpc[t] = "ch_loop" /\ hpc'[t] = "ch_done") =>
                Len(hl[t].ran) = Len(health_checks)
          /\ Len(hl'[t].ran) > Len(hl[t].ran) =>
                LET k == Len(hl'[t].ran)
                IN /\ k = Len(hl[t].ran) + 1
                   /\ hl'[t].results[hl'[t].ran[k].name].healthy =
                        (hl'[t].ran[k].outcome = "healthy")]_vars

\* a check that was healthy in an earlier check_health is reported
\* unhealthy by a later one
C29_Witness ==
  \E t \in Threads :
    /\ Returned(t)
    /\ Len(hl[t].ran) = 1
    /\ hl[t].ran[1].before = "healthy"
    /\ hl[t].ran[1].outcome = "unhealthy"
    /\ ~hl[t].result.checks[hl[t].ran[1].name].healthy
    /\ ~hl[t].result.healthy

\* C28: get_system_stats, get_memory_info and get_cpu_info always return:
\* when a call of the provider failed the record has the one field error,
\* which is the message of that failure, and otherwise it is the full
\* record; and no step of these calls changes the registered checks.
C28_StatsFailure ==
  /\ [](\A t \in Threads : hpc[t] = "st_done" =>
          IF hl[t].i # 0
          THEN /\ DOMAIN hl[t].result = {"error"}
               /\ \E which \in StatsCalls :
                    /\ hl[t].i \in DOMAIN ProviderCalls(which)
                    /\ hl[t].result.error = ProviderCalls(which)[hl[t].i]
          ELSE "error" \notin DOMAIN hl[t].result
               /\ "raised" \notin DOMAIN hl[t].result)
  /\ [][(\E t \in Threads : "st_done" \in {hpc[t], hpc'[t]} /\ hpc'[t] # hpc[t])
          => health_checks' = health_checks]_vars

\* the third provider call of get_system_stats failed: the record is
\* {error: message}; the registered check is still there
C28_Witness ==
  \E t \in Threads :
    /\ hpc[t] = "st_done"
    /\ hl[t].result = [error |-> "disk_usage"]
    /\ Len(health_checks) = 1


\* the flags of record r are those its checks mapping gives
FlagsFromChecks(r) ==
  /\ r.healthy = (\A n \in DOMAIN r.checks : r.checks[n].healthy)
  /\ r.critical_failure =
       (\E n \in DOMAIN r.checks :
          r.checks[n].critical /\ ~r.checks[n].healthy)

\* no two of the checks a check_health has run have the same name
NamesDistinct(t) ==
  \A j, k \in DOMAIN hl[t].ran :
    hl[t].ran[j].name = hl[t].ran[k].name => j = k

\* C34: in every record check_health returns, healthy is the conjunction
\* of the healthy fields of the entries of checks and critical_failure is
\* true iff some entry of checks is critical and not healthy, also when
\* several checks were registered under one name.
C34_FlagsAgreeWithChecks ==
  \A t \in Threads : Returned(t) => FlagsFromChecks(hl[t].result)

\* what does hold: the flags agree with the mapping when the checks that
\* were run have distinct names, and the mapping has one entry per name
FlagsAgreeForDistinctNames ==
  \A t \in Threads : Returned(t) =>
    /\ NamesDistinct(t) => FlagsFromChecks(hl[t].result)
    /\ DOMAIN hl[t].result.checks =
         {hl[t].ran[k].name : k \in DOMAIN hl[t].ran}


\* C35: a check_health call runs exactly the checks that were registered
\* when it was called: a check registered while the loop is in progress,
\* by a check function or by another caller, is not run by that call.
C35_RunsChecksAtStart ==
  \A t \in Threads :
    /\ Len(hl[t].ran) <= hl[t].atStart
    /\ Returned(t) => Len(hl[t].ran) = hl[t].atStart

\* what does hold: the loop reads the list itself, so a check_health call
\* runs the checks by their position in the list until it has run the
\* last check the list holds at that moment
RunsListAsItGrows ==
  [][\A t \in Threads :
       /\ RanInOrder(t)
       /\ (hpc[t] = "ch_loop" /\ hpc'[t] = "ch_done") =>
            /\ Len(hl[t].ran) = Len(health_checks)
            /\ Len(hl[t].ran) >= hl[t].atStart]_vars


\* the record of a check_health that found nothing to run
EmptyRecord == [healthy |-> TRUE, critical_failure |-> FALSE, checks |-> <<>>]

\* C37: in every record check_health returns, critical_failure implies
\* not healthy; a check_health that returns while no check is registered
\* returns healthy true, critical_failure false and an empty mapping; and
\* while every registered check is non-critical no record has
\* critical_failure true.
C37_FlagsSane ==
  /\ [](\A t \in Threads : Returned(t) =>
          /\ hl[t].result.critical_failure => ~hl[t].result.healthy
          /\ hl[t].ran = <<>> => hl[t].result = EmptyRecord
          /\ (\A k \in DOMAIN health_checks : ~health_checks[k].critical) =>
               ~hl[t].result.critical_failure)
  /\ [][\A t \in Threads :
          (hpc[t] = "ch_loop" /\ hpc'[t] = "ch_done"
             /\ health_checks = <<>>) =>
            hl'[t].result = EmptyRecord]_vars

\* a check_health called on a monitor without checks has returned the
\* empty healthy record; a non-critical check was registered since, and a
\* check_health in which it failed has returned healthy false and
\* critical_failure false
C37_Witness ==
  \E t, u \in Threads :
    /\ Returned(t) /\ hl[t].atStart = 0 /\ hl[t].result = EmptyRecord
    /\ Returned(u) /\ Len(hl[u].ran) = 1
    /\ ~hl[u].ran[1].critical /\ hl[u].ran[1].outcome # "healthy"
    /\ ~hl[u].result.healthy /\ ~hl[u].result.critical_failure


(* ------------------------ claims on the Profiler ---------------------- *)

\* a Profiler on which only start and stop were called is profiling iff
\* the last call was start, and its Profile is enabled iff it is profiling
ToggleState ==
  \A h \in DOMAIN profilers : profilers[h].toggled =>
    /\ profilers[h].profiling = (profilers[h].lastCall = "start")
    /\ profilers[h].enabled = profilers[h].profiling

\* this step is a start() on a Profiler that is profiling, or a stop() on
\* one that is not
Redundant(h) ==
  /\ profilers'[h].ncalls = profilers[h].ncalls + 1
  /\ \/ profilers[h].profiling /\ profilers'[h].lastCall = "start"
     \/ ~profilers[h].profiling /\ profilers'[h].lastCall = "stop"

\* C18: after any sequence of start and stop calls a Profiler is profiling
\* iff the last call was start, and its Profile is enabled iff it is
\* profiling; start while profiling and stop while not profiling change
\* nothing of the Profiler.
C18_IdempotentToggle ==
  /\ []ToggleState
  /\ [][\A h \in DOMAIN profilers : Redundant(h) =>
          /\ profilers'[h].profiling = profilers[h].profiling
          /\ profilers'[h].enabled = profilers[h].enabled
          /\ profilers'[h].window = profilers[h].window
          /\ profilers'[h].recorded = profilers[h].recorded]_vars

\* four calls of start and stop, of which only one start and one stop took
\* effect; the Profiler is not profiling
C18_Witness ==
  /\ profilers[1].toggled
  /\ profilers[1].ncalls = 4
  /\ profilers[1].window = 1
  /\ profilers[1].lastCall = "stop"
  /\ ~profilers[1].profiling /\ ~profilers[1].enabled

\* C19: the statistics a Profiler reports cover the calls of its latest
\* window only.
C19_FreshWindow ==
  \A t \in Threads :
    (ppc[t] = "stats_done" /\ pl[t].outcome = "returned") =>
      pl[t].stats \subseteq {profilers[pl[t].h].window}

\* C20: the Profiler of a scope is profiling while the body runs, is not
\* profiling once the scope is left, on the return and on the exception
\* path, and the scope ends with the exception of the body iff the body
\* raised.
C20_ScopeStops ==
  \A t \in Threads :
    /\ ppc[t] = "in_scope" =>
         profilers[pl[t].h].profiling /\ profilers[pl[t].h].enabled
    /\ ppc[t] = "scope_done" =>
         /\ ~profilers[pl[t].h].profiling /\ ~profilers[pl[t].h].enabled
         /\ (pl[t].outcome = "raised") = pl[t].exc
         /\ pl[t].outcome \in {"raised", "returned"}
    /\ \A h \in DOMAIN profilers :
         (h > 1 /\ \A u \in Threads : pl[u].h # h) => ~profilers[h].profiling

\* the body of a scope raised: its Profiler is stopped and the exception
\* went to the caller
C20_Witness ==
  \E t \in Threads :
    /\ ppc[t] = "scope_done"
    /\ pl[t].exc /\ pl[t].outcome = "raised"
    /\ pl[t].kind = "async"
    /\ profilers[pl[t].h].lastCall = "print_stats"
    /\ ~profilers[pl[t].h].profiling

\* a call of a function wrapped by profile or profile_async has ended
WrapperDone(t) ==
  ppc[t] = "scope_done" /\ pl[t].kind \in {"wrapper", "async"}

\* the wrapped function ran once, under the Profiler made for this call,
\* which profiled while it ran and not after; what it returned or raised
\* is what the caller gets
WrappedOnce ==
  \A t \in Threads :
    /\ (ppc[t] = "in_scope" /\ pl[t].kind \in {"wrapper", "async"}) =>
         /\ pl[t].invoked = 0
         /\ profilers[pl[t].h].profiling
         /\ \A u \in Threads \ {t} : pl[u].h # pl[t].h
    /\ WrapperDone(t) =>
         /\ pl[t].invoked = 1
         /\ ~profilers[pl[t].h].profiling
         /\ profilers[pl[t].h].window = 1
         /\ (pl[t].outcome = "raised") = pl[t].exc

\* C27: every call of a function wrapped by profile or profile_async runs
\* the function once under a Profiler of its own that profiles during that
\* run only, gives the caller what the function returned, and emits a
\* report only when the caller asked for one.
C27_WrapperOnce ==
  /\ WrappedOnce
  /\ \A t \in Threads :
       (WrapperDone(t) /\ pl[t].reported) => pl[t].print_stats

\* the same with the report clause for the profile wrapper alone
WrappedOnceSyncReport ==
  /\ WrappedOnce
  /\ \A t \in Threads :
       (WrapperDone(t) /\ pl[t].kind = "wrapper" /\ pl[t].reported) =>
         pl[t].print_stats

=============================================================================
